---- MODULE Spec2Model ----
(***************************************************************************)
(* Model of the OCR field-extraction engine of wesleysanjose/ocr.          *)
(*                                                                         *)
(* The repository holds several copies of the engine.  Each copy is a      *)
(* class with its own fields; each is modelled by its own specification    *)
(* over the variables that carry the names of the class's fields:          *)
(*   SpecSelect      OCRProcessor (static/js/ocr.js): line selection,      *)
(*                   markProcessed, processSelection                       *)
(*   SpecViewer      DocumentViewer of static/js/document_viewer/*         *)
(*   SpecCaseViewer  DocumentViewer of static/js/case_document_viewer.js   *)
(*   SpecCMV         DocumentViewer of static/js/case_management_viewer.js *)
(*   SpecParse, SpecClassify, SpecResolve: the pure functions              *)
(*                                                                         *)
(* A JavaScript string is a sequence of characters; a character is a       *)
(* one-element token.  A Map and a Set are sequences in insertion order    *)
(* (ECMAScript iterates both in insertion order).                          *)
(***************************************************************************)
EXTENDS Naturals, Integers, Sequences, FiniteSets, TLC

VARIABLES
  ocrLines,        \* the .ocr-line elements of the results pane, in DOM order
  renders,         \* how many times the results pane has been rendered
  selectedLines,   \* this.selectedLines: Set of line elements, insertion order
  processedLines,  \* this.processedLines: Set of data-index values
  lastSelected,    \* this.lastSelected / this.lastSelectedLine
  blue,            \* the elements that carry the class bg-blue-100
  selectedText,    \* this.selectedText: Array of strings
  keyValueMap,     \* this.keyValueMap: Map in insertion order
  modalHidden,     \* #key-input-modal carries the class hidden
  modalText,       \* #modal-selected-text textContent
  keyInput,        \* #key-input value
  valueInput,      \* #value-input value
  categorySelect,  \* #field-category value
  alertMsg,        \* the message of the alert() the last handler showed
  event,           \* the last event dispatched to a handler
  listeners,       \* click listeners attached to #modal-save / #modal-cancel
  currentDocument, \* this.currentDocument
  currentPage,     \* this.currentPage
  pendingDocument, \* the document of a getDocument() request not yet answered
  pageBtnDisabled, \* prevPageBtn.disabled and nextPageBtn.disabled
  analysis,        \* the AIAnalyzer: controller, buttons, results pane, requests
  activeCategory,  \* data-category of the active field category tab, or all
  fieldCategories, \* this.fieldCategories: the fields of each category panel
  loading,         \* the getDocument() requests of overlapping viewDocument calls
  fnIn,            \* argument of the pure function under check
  fnOut            \* its result

vars == << ocrLines, renders, selectedLines, processedLines, lastSelected,
           blue, selectedText, keyValueMap, modalHidden, modalText,
           keyInput, valueInput, categorySelect, alertMsg, event, listeners,
           currentDocument, currentPage, pendingDocument, pageBtnDisabled, analysis,
           activeCategory, fieldCategories, loading, fnIn, fnOut >>

None == "null"

\* this.fieldCategories as the constructor and viewDocument set it
NoFieldCategories ==
  [ personal |-> << >>, medical |-> << >>, incident |-> << >>, legal |-> << >> ]

\* No viewDocument call has been made: sent lists the documents asked for in
\* the order of the calls, open the positions of the calls not yet answered
NoLoading == [ sent |-> << >>, open |-> {} ]

\* null where a document is expected (this.currentDocument before any
\* document is opened)
NoDocument == [ ocr_data |-> None ]

\* The page buttons as created: both enabled
NoButtonDisabled == [ prev |-> FALSE, next |-> FALSE ]

\* #analysis-results: the markdown source shown by updateDisplay and the
\* banners appended after it
EmptyResults == [ text |-> << >>, tail |-> << >> ]

\* The AIAnalyzer after its constructor: controller null (0), #analyze-btn
\* disabled and #cancel-analyze-btn hidden as in index.html, no request made
NoAnalysis ==
  [ controller |-> 0, analyzeDisabled |-> TRUE, cancelHidden |-> TRUE,
    resultsDiv |-> EmptyResults, requests |-> << >> ]

-----------------------------------------------------------------------------
(* Characters and strings *)

FullColon == "FW:"    \* U+FF1A, the full-width colon
HalfColon == ":"
SP == " "
NL == "\n"

WhiteSpace == {SP, NL}

Str(c) == << c >>

RECURSIVE TrimStart(_)
TrimStart(s) ==
  IF s # << >> /\ Head(s) \in WhiteSpace THEN TrimStart(Tail(s)) ELSE s

RECURSIVE TrimEnd(_)
TrimEnd(s) ==
  IF s # << >> /\ s[Len(s)] \in WhiteSpace
  THEN TrimEnd(SubSeq(s, 1, Len(s) - 1)) ELSE s

\* String.prototype.trim
Trim(s) == TrimEnd(TrimStart(s))

\* String.prototype.indexOf for a single character: 0-based, -1 when absent
IndexOf(s, c) ==
  IF \E i \in 1..Len(s) : s[i] = c
  THEN (CHOOSE i \in 1..Len(s) : s[i] = c /\ \A j \in 1..(i - 1) : s[j] # c) - 1
  ELSE -1

\* String.prototype.substring(from, to) and substring(from), 0-based
Substring(s, from, to) == SubSeq(s, from + 1, to)
SubstringFrom(s, from) == SubSeq(s, from + 1, Len(s))

\* String.prototype.includes
Includes(s, t) ==
  \E i \in 0..(Len(s) - Len(t)) : SubSeq(s, i + 1, i + Len(t)) = t

\* Array.prototype.join
RECURSIVE Join(_, _)
Join(parts, sep) ==
  IF parts = << >> THEN << >>
  ELSE IF Len(parts) = 1 THEN parts[1]
  ELSE parts[1] \o sep \o Join(Tail(parts), sep)

\* String.prototype.split('\n'): an empty string gives one empty segment
RECURSIVE SplitLines(_)
SplitLines(s) ==
  LET i == IndexOf(s, NL)
  IN IF i = -1 THEN << s >>
     ELSE << Substring(s, 0, i) >> \o SplitLines(SubstringFrom(s, i + 1))

\* Array.prototype.slice(start, end) with a possibly negative start
Slice(a, start, end) ==
  LET n == Len(a)
      from == IF start < 0 THEN (IF n + start < 0 THEN 0 ELSE n + start)
              ELSE (IF start > n THEN n ELSE start)
      to == IF end < 0 THEN (IF n + end < 0 THEN 0 ELSE n + end)
            ELSE (IF end > n THEN n ELSE end)
  IN SubSeq(a, from + 1, to)

\* Array.prototype.indexOf on a sequence of elements: 0-based, -1 when absent
PosOf(a, e) ==
  IF \E i \in 1..Len(a) : a[i] = e
  THEN (CHOOSE i \in 1..Len(a) : a[i] = e /\ \A j \in 1..(i - 1) : a[j] # e) - 1
  ELSE -1

Range(a) == { a[i] : i \in 1..Len(a) }

\* Set.prototype.add and Set.prototype.delete on an insertion-ordered Set
SetAdd(s, e) == IF e \in Range(s) THEN s ELSE Append(s, e)
SetDeleteNothing(s, e) == s
SetDelete(s, e) == SelectSeq(s, LAMBDA x : x # e)

Min(a, b) == IF a < b THEN a ELSE b
Max(a, b) == IF a > b THEN a ELSE b

-----------------------------------------------------------------------------
(* Bounds and inputs *)

MaxRenders == 1       \* renderings of the results pane in one run

\* Raw OCR text of the pages given to displayResults
RawPage1 ==
  << "k", FullColon, "v", NL, NL, SP, "a", HalfColon, "b", SP, NL, "c" >>
RawPage2 == << "e", NL, SP, NL, "f" >>
RawPages == << RawPage1, RawPage2 >>

\* The states of the two modifier flags of a click event the handlers read
ClickEvents == [ shiftKey : BOOLEAN, ctrlKey : BOOLEAN ]

-----------------------------------------------------------------------------
(* KV Parser: the split shared by every processSelection *)

\* A split at whichever colon comes first in the text
ColonIndexEarliest(text) ==
  LET f == IndexOf(text, FullColon)
      h == IndexOf(text, HalfColon)
  IN IF f = -1 THEN h ELSE IF h = -1 THEN f ELSE Min(f, h)

\* The position the text is split at, -1 when it holds no colon
ColonIndex(text) ==
  IF IndexOf(text, FullColon) # -1
  THEN IndexOf(text, FullColon)
  ELSE IndexOf(text, HalfColon)

\* The key and the value processSelection puts into the form
SplitKeyValue(text) ==
  LET colonIndex == ColonIndex(text)
  IN IF colonIndex # -1
     THEN [ key |-> Trim(Substring(text, 0, colonIndex)),
            value |-> Trim(SubstringFrom(text, colonIndex + 1)) ]
     ELSE [ key |-> << >>, value |-> text ]

-----------------------------------------------------------------------------
(* OCRProcessor (static/js/ocr.js): Line Tokenizer and Selection Controller *)

\* A line element: the rendering that created it, its data-index (the
\* position of the segment in the unfiltered split; the code keeps it as a
\* decimal string, which is one-to-one with the number) and its trimmed text
LineElement(g, i, t) == [ gen |-> g, index |-> i, text |-> t ]

\* renderLines: one element per segment that is non-empty after trimming
RenderLines(lines, g) ==
  LET all == [ p \in 1..Len(lines) |-> LineElement(g, p - 1, Trim(lines[p])) ]
  IN SelectSeq(all, LAMBDA e : e.text # << >>)

\* textContent of a rendered line: the template puts the trimmed text
\* between a line break with indentation on both sides
TextContent(e) == << NL, SP >> \o e.text \o << NL, SP >>

\* null where a line element is expected (lastSelected before any click)
NoLine == [ gen |-> 0, index |-> -1, text |-> << >> ]

\* An event as its handler sees it: the element it was dispatched on and, for
\* a click on a line, the modifier flags the handler reads
NoKeys == [ shiftKey |-> FALSE, ctrlKey |-> FALSE ]
Event(type, e, line) ==
  [ type |-> type, shiftKey |-> e.shiftKey, ctrlKey |-> e.ctrlKey, line |-> line,
    key |-> << >> ]

IsProcessed(e, processed) == e.index \in processed

\* handleRangeSelect without its filter of processed lines
RangeSelectUnfiltered(lineElements, last, line, processed) ==
  LET start == PosOf(lineElements, last)
      end == PosOf(lineElements, line)
  IN Slice(lineElements, Min(start, end), Max(start, end) + 1)

\* handleRangeSelect with a slice that leaves out the far end of the range
RangeSelectShort(lineElements, last, line, processed) ==
  LET start == PosOf(lineElements, last)
      end == PosOf(lineElements, line)
      range == Slice(lineElements, Min(start, end), Max(start, end))
  IN SelectSeq(range, LAMBDA l : ~IsProcessed(l, processed))

\* handleRangeSelect: the new selectedLines
RangeSelect(lineElements, last, line, processed) ==
  LET start == PosOf(lineElements, last)
      end == PosOf(lineElements, line)
      range == Slice(lineElements, Min(start, end), Max(start, end) + 1)
  IN SelectSeq(range, LAMBDA l : ~IsProcessed(l, processed))

\* A select handler that removes bg-blue-100 from no element
UnhighlightedNone(lineElements, processed) == {}

\* The elements a select handler removes bg-blue-100 from
Unhighlighted(lineElements, processed) ==
  { l \in Range(lineElements) : ~IsProcessed(l, processed) }

\* text of processSelection: the selected lines in the Set's iteration order
SelectionText(sel) ==
  Join([ i \in 1..Len(sel) |-> Trim(TextContent(sel[i])) ], << >>)

SelectInit ==
  /\ ocrLines = << >>
  /\ renders = 0
  /\ selectedLines = << >>
  /\ processedLines = {}
  /\ lastSelected = NoLine
  /\ blue = {}
  /\ selectedText = << >>
  /\ keyValueMap = << >>
  /\ modalHidden = TRUE
  /\ modalText = << >>
  /\ keyInput = << >>
  /\ valueInput = << >>
  /\ categorySelect = None
  /\ alertMsg = None
  /\ event = Event("load", NoKeys, NoLine)
  /\ listeners = << >>
  /\ currentDocument = NoDocument
  /\ currentPage = 1
  /\ pendingDocument = NoDocument
  /\ pageBtnDisabled = NoButtonDisabled
  /\ analysis = NoAnalysis
  /\ activeCategory = "all"
  /\ fieldCategories = NoFieldCategories
  /\ loading = NoLoading
  /\ fnIn = None
  /\ fnOut = None

\* displayResults(raw) for a non-empty string raw, in a run of at most max
\* renderings
DisplayResultsWithin(raw, max) ==
  /\ renders < max
  /\ raw # << >>
  /\ event' = Event("displayResults", NoKeys, NoLine)
  /\ alertMsg' = None
  /\ renders' = renders + 1
  /\ ocrLines' = RenderLines(SplitLines(raw), renders + 1)
  /\ blue' = {}
  /\ UNCHANGED << selectedLines, processedLines, lastSelected,
                  selectedText, keyValueMap, modalHidden, modalText, keyInput,
                  valueInput, categorySelect, listeners, currentDocument,
                  currentPage, pendingDocument, pageBtnDisabled, analysis, activeCategory, fieldCategories, loading, fnIn, fnOut >>

DisplayResults(raw) == DisplayResultsWithin(raw, MaxRenders)

\* handleLineClick with a range handler that moves the anchor to the line
\* clicked
HandleLineClickMovingAnchor(e, line) ==
  /\ modalHidden
  /\ line \in Range(ocrLines)
  /\ event' = Event("click", e, line)
  /\ alertMsg' = None
  /\ IF IsProcessed(line, processedLines)
     THEN UNCHANGED << selectedLines, lastSelected, blue >>
     ELSE IF e.shiftKey /\ lastSelected # NoLine
     THEN \* handleRangeSelect
          /\ selectedLines' =
               RangeSelect(ocrLines, lastSelected, line, processedLines)
          /\ blue' = (blue \ Unhighlighted(ocrLines, processedLines))
                       \cup Range(selectedLines')
          /\ lastSelected' = line
     ELSE IF e.ctrlKey
     THEN \* handleMultiSelect
          /\ blue' = IF line \in blue THEN blue \ {line} ELSE blue \cup {line}
          /\ selectedLines' = IF line \in blue'
                              THEN SetAdd(selectedLines, line)
                              ELSE SetDelete(selectedLines, line)
          /\ lastSelected' = line
     ELSE \* handleSingleSelect
          /\ blue' = (blue \ Unhighlighted(ocrLines, processedLines))
                       \cup {line}
          /\ selectedLines' = << line >>
          /\ lastSelected' = line
  /\ UNCHANGED << ocrLines, renders, processedLines, selectedText,
                  keyValueMap, modalHidden, modalText, keyInput, valueInput,
                  categorySelect, listeners, currentDocument,
                  currentPage, pendingDocument, pageBtnDisabled, analysis, activeCategory, fieldCategories, loading, fnIn, fnOut >>

\* handleLineClick(e, line) with its three handlers; the modal covers the
\* whole window (index.html: fixed inset-0), so lines are clicked only while
\* it is hidden
HandleLineClick(e, line) ==
  /\ modalHidden
  /\ line \in Range(ocrLines)
  /\ event' = Event("click", e, line)
  /\ alertMsg' = None
  /\ IF IsProcessed(line, processedLines)
     THEN UNCHANGED << selectedLines, lastSelected, blue >>
     ELSE IF e.shiftKey /\ lastSelected # NoLine
     THEN \* handleRangeSelect
          /\ selectedLines' =
               RangeSelect(ocrLines, lastSelected, line, processedLines)
          /\ blue' = (blue \ Unhighlighted(ocrLines, processedLines))
                       \cup Range(selectedLines')
          /\ UNCHANGED lastSelected
     ELSE IF e.ctrlKey
     THEN \* handleMultiSelect
          /\ blue' = IF line \in blue THEN blue \ {line} ELSE blue \cup {line}
          /\ selectedLines' = IF line \in blue'
                              THEN SetAdd(selectedLines, line)
                              ELSE SetDelete(selectedLines, line)
          /\ lastSelected' = line
     ELSE \* handleSingleSelect
          /\ blue' = (blue \ Unhighlighted(ocrLines, processedLines))
                       \cup {line}
          /\ selectedLines' = << line >>
          /\ lastSelected' = line
  /\ UNCHANGED << ocrLines, renders, processedLines, selectedText,
                  keyValueMap, modalHidden, modalText, keyInput, valueInput,
                  categorySelect, listeners, currentDocument,
                  currentPage, pendingDocument, pageBtnDisabled, analysis, activeCategory, fieldCategories, loading, fnIn, fnOut >>

\* markProcessed: the apply step (a method of the class; its call at the
\* end of saveKeyValue is commented out, ocr.js:189)
MarkProcessed ==
  /\ event' = Event("markProcessed", NoKeys, NoLine)
  /\ alertMsg' = None
  /\ processedLines' =
       processedLines \cup { selectedLines[i].index : i \in 1..Len(selectedLines) }
  /\ blue' = blue \ Range(selectedLines)
  /\ selectedLines' = << >>
  /\ UNCHANGED << ocrLines, renders, lastSelected, selectedText,
                  keyValueMap, modalHidden, modalText, keyInput, valueInput,
                  categorySelect, listeners, currentDocument,
                  currentPage, pendingDocument, pageBtnDisabled, analysis, activeCategory, fieldCategories, loading, fnIn, fnOut >>

\* processSelection: the commit
ProcessSelection ==
  /\ modalHidden
  /\ selectedLines # << >>
  /\ event' = Event("process-btn", NoKeys, NoLine)
  /\ alertMsg' = None
  /\ LET text == SelectionText(selectedLines)
         kv == SplitKeyValue(text)
     IN /\ modalText' = text
        /\ keyInput' = kv.key
        /\ valueInput' = kv.value
  /\ modalHidden' = FALSE
  /\ UNCHANGED << ocrLines, renders, selectedLines, processedLines,
                  lastSelected, blue, selectedText, keyValueMap,
                  categorySelect, listeners, currentDocument,
                  currentPage, pendingDocument, pageBtnDisabled, analysis, activeCategory, fieldCategories, loading, fnIn, fnOut >>

\* hideModal: the cancel button of the form
HideModal ==
  /\ ~modalHidden
  /\ event' = Event("modal-cancel", NoKeys, NoLine)
  /\ alertMsg' = None
  /\ modalHidden' = TRUE
  /\ keyInput' = << >>
  /\ valueInput' = << >>
  /\ UNCHANGED << ocrLines, renders, selectedLines, processedLines,
                  lastSelected, blue, selectedText, keyValueMap,
                  modalText, categorySelect, listeners, currentDocument,
                  currentPage, pendingDocument, pageBtnDisabled, analysis, activeCategory, fieldCategories, loading, fnIn, fnOut >>

SelectNext ==
  \/ \E p \in 1..Len(RawPages) : DisplayResults(RawPages[p])
  \/ \E e \in ClickEvents : \E line \in Range(ocrLines) : HandleLineClick(e, line)
  \/ MarkProcessed
  \/ ProcessSelection
  \/ HideModal

SpecSelect == SelectInit /\ [][SelectNext]_vars

-----------------------------------------------------------------------------
(* Selection Controller: claims C5, C6, C7 *)

\* C5: in every reachable state no committed (processed) line is a member
\* of selected.
SelectedNotCommitted ==
  \A i \in 1..Len(selectedLines) : selectedLines[i].index \notin processedLines

\* A click has just been refused on a committed line while other lines are
\* selected
C5Witness ==
  /\ event.type = "click"
  /\ event.line.index \in processedLines
  /\ selectedLines # << >>

\* The lines of the pane whose index lies between the indices of a and l,
\* both included, and that are not committed
IndexSpan(a, l) ==
  { x \in Range(ocrLines) :
      /\ Min(a.index, l.index) <= x.index
      /\ x.index <= Max(a.index, l.index)
      /\ x.index \notin processedLines }

RECURSIVE SortByIndex(_)
SortByIndex(sel) ==
  IF sel = << >> THEN << >>
  ELSE LET m == CHOOSE i \in 1..Len(sel) :
                  \A j \in 1..Len(sel) :
                    \/ sel[i].index < sel[j].index
                    \/ (sel[i].index = sel[j].index /\ i <= j)
       IN << sel[m] >> \o
            SortByIndex(SubSeq(sel, 1, m - 1) \o SubSeq(sel, m + 1, Len(sel)))

\* C7: the commit reads the selected lines in ascending line-index order,
\* whatever the order in which they were clicked.
CommitReadsAscending ==
  event.type = "process-btn"
    => modalText = SelectionText(SortByIndex(selectedLines))

-----------------------------------------------------------------------------
(* KV Parser as a function of the text: claim C8 *)

MaxTextLen == 4       \* characters of a text given to the parser

ParseChars == { FullColon, HalfColon, SP, "a" }

\* All sequences over S of length at most n
SeqsUpTo(S, n) == UNION { [ 1..k -> S ] : k \in 0..n }

\* The texts processSelection builds: a join of lines, each trimmed and
\* non-empty, so a text without white space at either end
ParseTexts ==
  { t \in SeqsUpTo(ParseChars, MaxTextLen) : t # << >> /\ Trim(t) = t }

ParseInit ==
  /\ fnIn \in ParseTexts
  /\ fnOut = << >>
  /\ ocrLines = << >>
  /\ renders = 0
  /\ selectedLines = << >>
  /\ processedLines = {}
  /\ lastSelected = NoLine
  /\ blue = {}
  /\ selectedText = << >>
  /\ keyValueMap = << >>
  /\ modalHidden = TRUE
  /\ modalText = << >>
  /\ keyInput = << >>
  /\ valueInput = << >>
  /\ categorySelect = None
  /\ alertMsg = None
  /\ event = Event("load", NoKeys, NoLine)
  /\ listeners = << >>
  /\ currentDocument = NoDocument
  /\ currentPage = 1
  /\ pendingDocument = NoDocument
  /\ pageBtnDisabled = NoButtonDisabled
  /\ analysis = NoAnalysis
  /\ activeCategory = "all"
  /\ fieldCategories = NoFieldCategories
  /\ loading = NoLoading

\* The variables of the classes, which the function specifications leave alone
classVars ==
  << ocrLines, renders, selectedLines, processedLines, lastSelected, blue,
     selectedText, keyValueMap, modalHidden, modalText, keyInput, valueInput,
     categorySelect, alertMsg, event, listeners, currentDocument, currentPage,
     pendingDocument, pageBtnDisabled, analysis, activeCategory,
     fieldCategories, loading >>

\* processSelection splits the text
ParseText ==
  /\ fnOut = << >>
  /\ fnOut' = << SplitKeyValue(fnIn) >>
  /\ UNCHANGED << fnIn, classVars >>

ParseNext == ParseText

SpecParse == ParseInit /\ [][ParseNext]_vars

\* The 1-based positions of character c in text t
Positions(t, c) == { i \in 1..Len(t) : t[i] = c }

\* The result of a split of t at position i
SplitAt(t, i, r) ==
  /\ r.key = Trim(SubSeq(t, 1, i - 1))
  /\ r.value = Trim(SubSeq(t, i + 1, Len(t)))

\* The least member of a non-empty set of numbers
Least(S) == CHOOSE i \in S : \A j \in S : i <= j

\* C8: parse(text) splits at the first full-width colon whenever the text
\* holds one, even after an earlier half-width colon; at the first
\* half-width colon only when there is no full-width colon; key and value
\* are the trimmed substrings before and after that one character; without
\* any colon the key is empty and the value is the whole trimmed text.
ParseSplitsAtFullWidthFirst ==
  fnOut # << >> =>
    LET t == fnIn
        r == fnOut[1]
    IN IF Positions(t, FullColon) # {}
       THEN SplitAt(t, Least(Positions(t, FullColon)), r)
       ELSE IF Positions(t, HalfColon) # {}
       THEN SplitAt(t, Least(Positions(t, HalfColon)), r)
       ELSE r.key = << >> /\ r.value = Trim(t)

\* A text with a half-width colon before its full-width colon has been split
\* at the full-width one
C8Witness ==
  /\ fnOut # << >>
  /\ Positions(fnIn, FullColon) # {}
  /\ Positions(fnIn, HalfColon) # {}
  /\ Least(Positions(fnIn, HalfColon)) < Least(Positions(fnIn, FullColon))
  /\ HalfColon \in Range(fnOut[1].key)

-----------------------------------------------------------------------------
(* Category Classifier: DocumentViewer.prototype.guessCategory, claim C9 *)
(* A CJK character is written as the token of its code point.             *)

UpperCaseLetters ==
  << "A", "B", "C", "D", "E", "F", "G", "H", "I", "J", "K", "L", "M",
     "N", "O", "P", "Q", "R", "S", "T", "U", "V", "W", "X", "Y", "Z" >>
LowerCaseLetters ==
  << "a", "b", "c", "d", "e", "f", "g", "h", "i", "j", "k", "l", "m",
     "n", "o", "p", "q", "r", "s", "t", "u", "v", "w", "x", "y", "z" >>

\* String.prototype.toLowerCase: a letter A-Z becomes a-z, any other
\* character of the model (digits, CJK, punctuation) has no lower case
ToLowerCase(str) ==
  [ i \in 1..Len(str) |->
      IF \E j \in 1..26 : UpperCaseLetters[j] = str[i]
      THEN LowerCaseLetters[CHOOSE j \in 1..26 : UpperCaseLetters[j] = str[i]]
      ELSE str[i] ]

\* xingming, xingbie, nianling, dianhua, dizhi, gongzuodanwei, shenfenzheng
personalKeys ==
  << << "u59D3", "u540D" >>,
     << "u6027", "u522B" >>,
     << "u5E74", "u9F84" >>,
     << "u7535", "u8BDD" >>,
     << "u5730", "u5740" >>,
     << "u5DE5", "u4F5C", "u5355", "u4F4D" >>,
     << "u8EAB", "u4EFD", "u8BC1" >> >>

\* yiyuan, zhenduan, yishi, zhiliao, bingli, zhuyuan, shangqing, jiancha
medicalKeys ==
  << << "u533B", "u9662" >>,
     << "u8BCA", "u65AD" >>,
     << "u533B", "u5E08" >>,
     << "u6CBB", "u7597" >>,
     << "u75C5", "u5386" >>,
     << "u4F4F", "u9662" >>,
     << "u4F24", "u60C5" >>,
     << "u68C0", "u67E5" >> >>

\* shigu, riqi, shijian, didian, jingguo, guocheng, zaocheng
incidentKeys ==
  << << "u4E8B", "u6545" >>,
     << "u65E5", "u671F" >>,
     << "u65F6", "u95F4" >>,
     << "u5730", "u70B9" >>,
     << "u7ECF", "u8FC7" >>,
     << "u8FC7", "u7A0B" >>,
     << "u9020", "u6210" >> >>

\* jianding, falv, zeren, tiaokuan, biaozhun, shangcandengji, jielun
legalKeys ==
  << << "u9274", "u5B9A" >>,
     << "u6CD5", "u5F8B" >>,
     << "u8D23", "u4EFB" >>,
     << "u6761", "u6B3E" >>,
     << "u6807", "u51C6" >>,
     << "u4F24", "u6B8B", "u7B49", "u7EA7" >>,
     << "u7ED3", "u8BBA" >> >>

\* One of the four loops of guessCategory: some keyword of the list is
\* contained in the lower-cased key
AnyKeyIn(keys, key) ==
  \E i \in 1..Len(keys) : Includes(key, ToLowerCase(keys[i]))

\* guessCategory with the legal list tested before the incident list
GuessCategoryLegalFirst(k) ==
  LET key == ToLowerCase(k)
  IN IF AnyKeyIn(personalKeys, key) THEN "personal"
     ELSE IF AnyKeyIn(medicalKeys, key) THEN "medical"
     ELSE IF AnyKeyIn(legalKeys, key) THEN "legal"
     ELSE IF AnyKeyIn(incidentKeys, key) THEN "incident"
     ELSE "personal"

GuessCategory(k) ==
  LET key == ToLowerCase(k)
  IN IF AnyKeyIn(personalKeys, key) THEN "personal"
     ELSE IF AnyKeyIn(medicalKeys, key) THEN "medical"
     ELSE IF AnyKeyIn(incidentKeys, key) THEN "incident"
     ELSE IF AnyKeyIn(legalKeys, key) THEN "legal"
     ELSE "personal"

MaxKeyParts == 3      \* fragments a key given to the classifier is made of

\* The fragments the keys are made of: xingming, yiyuan, shigu, jianding,
\* jielun, ri, qi (riqi only when joined) and a Latin letter in both cases
KeyParts ==
  { << "u59D3", "u540D" >>,
    << "u533B", "u9662" >>,
    << "u4E8B", "u6545" >>,
    << "u9274", "u5B9A" >>,
    << "u7ED3", "u8BBA" >>,
    << "u65E5" >>,
    << "u671F" >>,
    << "Q" >>,
    << "q" >> }

\* The concatenation of a sequence of strings
RECURSIVE Concat(_)
Concat(parts) ==
  IF parts = << >> THEN << >> ELSE Head(parts) \o Concat(Tail(parts))

ClassifyKeys == { Concat(ps) : ps \in SeqsUpTo(KeyParts, MaxKeyParts) }

ClassifyInit ==
  /\ fnIn \in ClassifyKeys
  /\ fnOut = << >>
  /\ ocrLines = << >>
  /\ renders = 0
  /\ selectedLines = << >>
  /\ processedLines = {}
  /\ lastSelected = NoLine
  /\ blue = {}
  /\ selectedText = << >>
  /\ keyValueMap = << >>
  /\ modalHidden = TRUE
  /\ modalText = << >>
  /\ keyInput = << >>
  /\ valueInput = << >>
  /\ categorySelect = None
  /\ alertMsg = None
  /\ event = Event("load", NoKeys, NoLine)
  /\ listeners = << >>
  /\ currentDocument = NoDocument
  /\ currentPage = 1
  /\ pendingDocument = NoDocument
  /\ pageBtnDisabled = NoButtonDisabled
  /\ analysis = NoAnalysis
  /\ activeCategory = "all"
  /\ fieldCategories = NoFieldCategories
  /\ loading = NoLoading

\* guessCategory(key)
Classify ==
  /\ fnOut = << >>
  /\ fnOut' = << GuessCategory(fnIn) >>
  /\ UNCHANGED << fnIn, classVars >>

ClassifyNext == Classify

SpecClassify == ClassifyInit /\ [][ClassifyNext]_vars

\* The key holds, case-insensitively, some keyword of the list
Matches(key, keys) ==
  \E i \in 1..Len(keys) : \E a \in 0..Len(key) : \E b \in a..Len(key) :
    ToLowerCase(SubSeq(key, a + 1, b)) = ToLowerCase(keys[i])

Categories == << "personal", "medical", "incident", "legal" >>
KeywordLists == << personalKeys, medicalKeys, incidentKeys, legalKeys >>

\* C9: classify(key) is the category of the first list, in the order
\* personal, medical, incident, legal, that has a keyword contained
\* case-insensitively in key, and personal when no list matches; it is always
\* one of the four categories.
ClassifierPrecedence ==
  fnOut # << >> =>
    LET hits == { n \in 1..4 : Matches(fnIn, KeywordLists[n]) }
    IN /\ fnOut[1] \in Range(Categories)
       /\ hits # {} => fnOut[1] = Categories[Least(hits)]
       /\ hits = {} => fnOut[1] = "personal"

\* shigu-jianding-jielun, which holds an incident and two legal keywords,
\* has been classified incident
C9Witness ==
  /\ fnIn = << "u4E8B", "u6545", "u9274", "u5B9A", "u7ED3", "u8BBA" >>
  /\ fnOut = << "incident" >>

-----------------------------------------------------------------------------
(* Field Store: this.keyValueMap, a Map kept as the sequence of its entries *)
(* in iteration order.  An entry is [key, data]; data is the Map's value:   *)
(* { value, category } in document_viewer, the value string elsewhere.      *)

MapKeys(map) == [ i \in 1..Len(map) |-> map[i].key ]

MapHas(map, key) == \E i \in 1..Len(map) : map[i].key = key

\* Map.prototype.get for a key of the map
MapGet(map, key) == map[CHOOSE i \in 1..Len(map) : map[i].key = key].data

\* A delete by position: splice(indexOf(key), 1), which takes the last
\* entry out when the key is not there
MapDeleteSplice(map, key) ==
  IF MapHas(map, key) THEN SelectSeq(map, LAMBDA en : en.key # key)
  ELSE SubSeq(map, 1, Len(map) - 1)

\* Map.prototype.delete
MapDelete(map, key) == SelectSeq(map, LAMBDA en : en.key # key)

\* A set() that takes the key out and puts the entry at the end
MapSetMoveToEnd(map, key, data) ==
  Append(SelectSeq(map, LAMBDA en : en.key # key), [ key |-> key, data |-> data ])

\* Map.prototype.set: a key of the map keeps its position, a new key is
\* added after all entries
MapSet(map, key, data) ==
  IF MapHas(map, key)
  THEN [ i \in 1..Len(map) |->
           IF map[i].key = key THEN [ key |-> key, data |-> data ] ELSE map[i] ]
  ELSE Append(map, [ key |-> key, data |-> data ])

\* An event dispatched on an element that carries data-key
KeyEvent(type, key) ==
  [ type |-> type, shiftKey |-> FALSE, ctrlKey |-> FALSE, line |-> NoLine,
    key |-> key ]

\* alert('...'): "please enter the field name"
EnterFieldName == << "u8BF7", "u8F93", "u5165", "u5B57", "u6BB5", "u540D", "u79F0" >>

-----------------------------------------------------------------------------
(* DocumentViewer of static/js/document_viewer: main.js, preview.js, ocr.js *)

\* modalText of the custom-field form: "custom field"
CustomFieldLabel == << "u81EA", "u5B9A", "u4E49", "u5B57", "u6BB5" >>

\* What the user types into #key-input and #value-input and picks in
\* #field-category, and the panels a field is dropped on
KeyInputs == { << SP >>, << "b" >>, << SP, "a" >> }
ValueInputs == { << "y", SP >> }
CategoryInputs == { "personal", "medical" }

\* The payloads of a drag: the keys the fields of the pane can have
DropKeys == { << "a" >>, << "b" >> }

\* The documents caseAPI.getDocument returns: processed_text in the order of
\* Object.entries and the raw OCR text of each page of ocr_data.pages
Documents ==
  { [ processed_text |-> << >>,
      pages |-> << << NL, SP, "a", HalfColon, "x", SP, NL >>,
                   << "c", HalfColon, "z" >> >> ],
    [ processed_text |-> << [ key |-> << "b" >>, value |-> << "x" >> ] >>,
      pages |-> << << "a", HalfColon, "x" >> >> ] }

\* displayOCRResults(pageData.raw) for the page shown
PageLines(doc, page) == RenderLines(SplitLines(doc.pages[page]), 1)

\* renderDocument: if (pageData && pageData.raw) displayOCRResults(raw); the
\* lines, and the marks on them, stay as they are for a page without text
RenderPageLines(doc, page, lines) ==
  IF doc.pages[page] # << >> THEN PageLines(doc, page) ELSE lines
RenderPageMarks(doc, page, marks) ==
  IF doc.pages[page] # << >> THEN {} ELSE marks

\* renderDocument: prevPageBtn.disabled and nextPageBtn.disabled
PageButtons(doc, page) ==
  [ prev |-> page = 1, next |-> page = Len(doc.pages) ]

\* The loop of updateFieldCategories with the pushes in reverse
RECURSIVE FieldCategoriesLoopUnshift(_, _)
FieldCategoriesLoopUnshift(groups, entries) ==
  IF entries = << >> THEN groups
  ELSE LET en == Head(entries)
           category == IF en.data.category = "" THEN "personal"
                       ELSE en.data.category
       IN FieldCategoriesLoopUnshift(
            IF category \in DOMAIN groups
            THEN [ groups EXCEPT
                     ![category] = << [ key |-> en.key, value |-> en.data.value ] >> \o @ ]
            ELSE groups,
            Tail(entries))

\* The loop of updateFieldCategories over the entries of the Map: a copy of
\* key and value is pushed onto the array of the category of the entry
RECURSIVE FieldCategoriesLoop(_, _)
FieldCategoriesLoop(groups, entries) ==
  IF entries = << >> THEN groups
  ELSE LET en == Head(entries)
           category == IF en.data.category = "" THEN "personal"
                       ELSE en.data.category
       IN FieldCategoriesLoop(
            IF category \in DOMAIN groups
            THEN [ groups EXCEPT
                     ![category] = Append(@, [ key |-> en.key, value |-> en.data.value ]) ]
            ELSE groups,
            Tail(entries))

\* fields of updateKVDisplay: Array.from(entries()), filtered by the active
\* category unless it is all
FilterFields(map, active) ==
  IF active # "all"
  THEN SelectSeq(map, LAMBDA en : en.data.category = active)
  ELSE map

\* this.fieldCategories after updateKVDisplay: it returns before
\* updateFieldCategories when no field passes the filter
UpdateKVDisplay(map, active, held) ==
  IF FilterFields(map, active) = << >> THEN held
  ELSE FieldCategoriesLoop(NoFieldCategories, map)

\* viewDocument: the Map built from processed_text
RECURSIVE LoadProcessedText(_, _)
LoadProcessedText(map, entries) ==
  IF entries = << >> THEN map
  ELSE LET en == Head(entries)
       IN LoadProcessedText(
            MapSet(map, en.key,
                   [ value |-> en.value, category |-> GuessCategory(en.key) ]),
            Tail(entries))

\* Array.prototype.splice(index, 1)
Splice1(a, index) == SubSeq(a, 1, index) \o SubSeq(a, index + 2, Len(a))

ViewerInit ==
  /\ ocrLines = << >>
  /\ renders = 0
  /\ selectedLines = << >>
  /\ processedLines = {}
  /\ lastSelected = NoLine
  /\ blue = {}
  /\ selectedText = << >>
  /\ keyValueMap = << >>
  /\ modalHidden = TRUE
  /\ modalText = << >>
  /\ keyInput = << >>
  /\ valueInput = << >>
  /\ categorySelect = "personal"
  /\ alertMsg = None
  /\ event = Event("load", NoKeys, NoLine)
  /\ listeners = << >>
  /\ currentDocument = NoDocument
  /\ currentPage = 1
  /\ pendingDocument = NoDocument
  /\ pageBtnDisabled = NoButtonDisabled
  /\ analysis = NoAnalysis
  /\ activeCategory = "all"
  /\ fieldCategories = NoFieldCategories
  /\ loading = NoLoading
  /\ fnIn = None
  /\ fnOut = None

\* viewDocument, with renderDocument and displayOCRResults of its page
ViewDocument(doc) ==
  /\ modalHidden
  /\ event' = Event("viewDocument", NoKeys, NoLine)
  /\ alertMsg' = None
  /\ keyValueMap' = LoadProcessedText(<< >>, doc.processed_text)
  /\ selectedText' = << >>
  /\ currentDocument' = doc
  /\ currentPage' = 1
  /\ pageBtnDisabled' = PageButtons(doc, 1)
  /\ ocrLines' = RenderPageLines(doc, 1, ocrLines)
  /\ blue' = RenderPageMarks(doc, 1, blue)
  /\ fieldCategories' = UpdateKVDisplay(keyValueMap', activeCategory, NoFieldCategories)
  /\ UNCHANGED << renders, selectedLines, processedLines, lastSelected,
                  modalHidden, modalText, keyInput, valueInput, categorySelect,
                  listeners, pendingDocument, analysis, activeCategory, loading, fnIn, fnOut >>

\* handleLineClick(line) of document_viewer/ocr.js: a toggle; textContent of
\* a line is its trimmed text
ViewerHandleLineClick(line) ==
  /\ modalHidden
  /\ line \in Range(ocrLines)
  /\ event' = Event("click", NoKeys, line)
  /\ alertMsg' = None
  /\ blue' = IF line \in blue THEN blue \ {line} ELSE blue \cup {line}
  /\ selectedText' =
       IF line \in blue'
       THEN Append(selectedText, line.text)
       ELSE LET index == PosOf(selectedText, line.text)
            IN IF index # -1 THEN Splice1(selectedText, index) ELSE selectedText
  /\ UNCHANGED << ocrLines, renders, selectedLines, processedLines,
                  lastSelected, keyValueMap, modalHidden, modalText, keyInput,
                  valueInput, categorySelect, listeners, currentDocument,
                  currentPage, pendingDocument, pageBtnDisabled, analysis, activeCategory, fieldCategories, loading, fnIn, fnOut >>

\* clearSelection: the clear button
ClearSelection ==
  /\ modalHidden
  /\ selectedText # << >>
  /\ event' = Event("clear-selection", NoKeys, NoLine)
  /\ alertMsg' = None
  /\ selectedText' = << >>
  /\ blue' = {}
  /\ UNCHANGED << ocrLines, renders, selectedLines, processedLines,
                  lastSelected, keyValueMap, modalHidden, modalText, keyInput,
                  valueInput, categorySelect, listeners, currentDocument,
                  currentPage, pendingDocument, pageBtnDisabled, analysis, activeCategory, fieldCategories, loading, fnIn, fnOut >>

\* processSelection of document_viewer/ocr.js
ViewerProcessSelection ==
  /\ modalHidden
  /\ selectedText # << >>
  /\ event' = Event("process-btn", NoKeys, NoLine)
  /\ alertMsg' = None
  /\ LET text == Join(selectedText, << NL >>)
         kv == SplitKeyValue(text)
     IN /\ modalText' = text
        /\ keyInput' = kv.key
        /\ valueInput' = kv.value
        /\ categorySelect' = IF ColonIndex(text) # -1
                             THEN GuessCategory(kv.key) ELSE "personal"
  /\ modalHidden' = FALSE
  /\ UNCHANGED << ocrLines, renders, selectedLines, processedLines,
                  lastSelected, blue, selectedText, keyValueMap, listeners,
                  currentDocument,
                  currentPage, pendingDocument, pageBtnDisabled, analysis, activeCategory, fieldCategories, loading, fnIn, fnOut >>

\* showAddCustomFieldModal
ShowAddCustomFieldModal ==
  /\ modalHidden
  /\ event' = Event("add-custom-field", NoKeys, NoLine)
  /\ alertMsg' = None
  /\ modalText' = CustomFieldLabel
  /\ keyInput' = << >>
  /\ valueInput' = << >>
  /\ categorySelect' = "personal"
  /\ modalHidden' = FALSE
  /\ UNCHANGED << ocrLines, renders, selectedLines, processedLines,
                  lastSelected, blue, selectedText, keyValueMap, listeners,
                  currentDocument,
                  currentPage, pendingDocument, pageBtnDisabled, analysis, activeCategory, fieldCategories, loading, fnIn, fnOut >>

\* The edit button of a field: editKeyValue(key, data.value, data.category)
EditKeyValue(key) ==
  /\ modalHidden
  /\ MapHas(keyValueMap, key)
  /\ event' = KeyEvent("edit-kv", key)
  /\ alertMsg' = None
  /\ modalText' = << >>
  /\ keyInput' = key
  /\ valueInput' = MapGet(keyValueMap, key).value
  /\ categorySelect' = MapGet(keyValueMap, key).category
  /\ modalHidden' = FALSE
  /\ UNCHANGED << ocrLines, renders, selectedLines, processedLines,
                  lastSelected, blue, selectedText, keyValueMap, listeners,
                  currentDocument,
                  currentPage, pendingDocument, pageBtnDisabled, analysis, activeCategory, fieldCategories, loading, fnIn, fnOut >>

\* The user fills the open form; no handler of the program runs
TypeKey(k) ==
  /\ ~modalHidden
  /\ keyInput' = k
  /\ keyInput' # keyInput
  /\ UNCHANGED << ocrLines, renders, selectedLines, processedLines,
                  lastSelected, blue, selectedText, keyValueMap, modalHidden,
                  modalText, valueInput, categorySelect, alertMsg, event,
                  listeners, currentDocument,
                  currentPage, pendingDocument, pageBtnDisabled, analysis, activeCategory, fieldCategories, loading, fnIn, fnOut >>

TypeValue(v) ==
  /\ ~modalHidden
  /\ valueInput' = v
  /\ valueInput' # valueInput
  /\ UNCHANGED << ocrLines, renders, selectedLines, processedLines,
                  lastSelected, blue, selectedText, keyValueMap, modalHidden,
                  modalText, keyInput, categorySelect, alertMsg, event,
                  listeners, currentDocument,
                  currentPage, pendingDocument, pageBtnDisabled, analysis, activeCategory, fieldCategories, loading, fnIn, fnOut >>

SelectCategory(c) ==
  /\ ~modalHidden
  /\ categorySelect' = c
  /\ categorySelect' # categorySelect
  /\ UNCHANGED << ocrLines, renders, selectedLines, processedLines,
                  lastSelected, blue, selectedText, keyValueMap, modalHidden,
                  modalText, keyInput, valueInput, alertMsg, event,
                  listeners, currentDocument,
                  currentPage, pendingDocument, pageBtnDisabled, analysis, activeCategory, fieldCategories, loading, fnIn, fnOut >>

\* saveKeyValue of preview.js: the save button of the form, with
\* updateKVDisplay, clearSelection and hideModal
SaveKeyValue ==
  /\ ~modalHidden
  /\ event' = KeyEvent("modal-save", Trim(keyInput))
  /\ LET key == Trim(keyInput)
     IN IF key = << >>
        THEN /\ alertMsg' = EnterFieldName
             /\ UNCHANGED << keyValueMap, selectedText, blue, modalHidden >>
        ELSE /\ alertMsg' = None
             /\ keyValueMap' =
                  MapSet(keyValueMap, key,
                         [ value |-> Trim(valueInput),
                           category |-> categorySelect ])
             /\ selectedText' = << >>
             /\ blue' = {}
             /\ modalHidden' = TRUE
  /\ fieldCategories' =
       IF Trim(keyInput) = << >> THEN fieldCategories
       ELSE UpdateKVDisplay(keyValueMap', activeCategory, fieldCategories)
  /\ UNCHANGED << ocrLines, renders, selectedLines, processedLines,
                  lastSelected, modalText, keyInput, valueInput,
                  categorySelect, listeners, currentDocument,
                  currentPage, pendingDocument, pageBtnDisabled, analysis, activeCategory, loading, fnIn, fnOut >>

\* A cancel button that also empties the selection, as the save does
ViewerHideModalClearing ==
  /\ ~modalHidden
  /\ event' = Event("modal-cancel", NoKeys, NoLine)
  /\ alertMsg' = None
  /\ modalHidden' = TRUE
  /\ selectedText' = << >>
  /\ blue' = {}
  /\ UNCHANGED << ocrLines, renders, selectedLines, processedLines,
                  lastSelected, keyValueMap, modalText,
                  keyInput, valueInput, categorySelect, listeners, currentDocument,
                  currentPage, pendingDocument, pageBtnDisabled, analysis, activeCategory, fieldCategories, loading, fnIn, fnOut >>

\* hideModal of document_viewer/ocr.js: the cancel button of the form
ViewerHideModal ==
  /\ ~modalHidden
  /\ event' = Event("modal-cancel", NoKeys, NoLine)
  /\ alertMsg' = None
  /\ modalHidden' = TRUE
  /\ UNCHANGED << ocrLines, renders, selectedLines, processedLines,
                  lastSelected, blue, selectedText, keyValueMap, modalText,
                  keyInput, valueInput, categorySelect, listeners, currentDocument,
                  currentPage, pendingDocument, pageBtnDisabled, analysis, activeCategory, fieldCategories, loading, fnIn, fnOut >>

\* The remove button of a field; ok is the answer to confirm()
RemoveKV(key, ok) ==
  /\ modalHidden
  /\ MapHas(keyValueMap, key)
  /\ event' = KeyEvent("remove-kv", key)
  /\ alertMsg' = None
  /\ keyValueMap' = IF ok THEN MapDelete(keyValueMap, key) ELSE keyValueMap
  /\ fieldCategories' =
       IF ok THEN UpdateKVDisplay(keyValueMap', activeCategory, fieldCategories)
       ELSE fieldCategories
  /\ UNCHANGED << ocrLines, renders, selectedLines, processedLines,
                  lastSelected, blue, selectedText, modalHidden, modalText,
                  keyInput, valueInput, categorySelect, listeners, currentDocument,
                  currentPage, pendingDocument, pageBtnDisabled, analysis, activeCategory, loading, fnIn, fnOut >>

\* The drop handler without its test of data: the key of the payload is
\* set whether the Map has it or not
DropFieldUnguarded(key, category) ==
  /\ modalHidden
  /\ event' = KeyEvent("drop", key)
  /\ alertMsg' = None
  /\ keyValueMap' =
       MapSet(keyValueMap, key,
              [ value |-> IF MapHas(keyValueMap, key)
                          THEN MapGet(keyValueMap, key).value ELSE << >>,
                category |-> category ])
  /\ fieldCategories' = UpdateKVDisplay(keyValueMap', activeCategory, fieldCategories)
  /\ UNCHANGED << ocrLines, renders, selectedLines, processedLines,
                  lastSelected, blue, selectedText, modalHidden, modalText,
                  keyInput, valueInput, categorySelect, listeners,
                  currentDocument, currentPage, pendingDocument,
                  pageBtnDisabled, analysis, activeCategory, loading, fnIn, fnOut >>

\* The drop handler of a category panel: key is the text/plain payload of
\* the drag, category is categories[index] of the panel
DropField(key, category) ==
  /\ modalHidden
  /\ event' = KeyEvent("drop", key)
  /\ alertMsg' = None
  /\ keyValueMap' =
       IF MapHas(keyValueMap, key)
       THEN MapSet(keyValueMap, key,
                   [ value |-> MapGet(keyValueMap, key).value,
                     category |-> category ])
       ELSE keyValueMap
  /\ fieldCategories' =
       IF MapHas(keyValueMap, key)
       THEN UpdateKVDisplay(keyValueMap', activeCategory, fieldCategories)
       ELSE fieldCategories
  /\ UNCHANGED << ocrLines, renders, selectedLines, processedLines,
                  lastSelected, blue, selectedText, modalHidden, modalText,
                  keyInput, valueInput, categorySelect, listeners, currentDocument,
                  currentPage, pendingDocument, pageBtnDisabled, analysis, activeCategory, loading, fnIn, fnOut >>

ViewerNext ==
  \/ \E doc \in Documents : ViewDocument(doc)
  \/ \E line \in Range(ocrLines) : ViewerHandleLineClick(line)
  \/ ClearSelection
  \/ ViewerProcessSelection
  \/ ShowAddCustomFieldModal
  \/ \E key \in Range(MapKeys(keyValueMap)) : EditKeyValue(key)
  \/ \E k \in KeyInputs : TypeKey(k)
  \/ \E v \in ValueInputs : TypeValue(v)
  \/ \E c \in CategoryInputs : SelectCategory(c)
  \/ SaveKeyValue
  \/ ViewerHideModal
  \/ \E key \in Range(MapKeys(keyValueMap)) : \E ok \in BOOLEAN : RemoveKV(key, ok)
  \/ \E key \in DropKeys : \E c \in CategoryInputs : DropField(key, c)

SpecViewer == ViewerInit /\ [][ViewerNext]_vars

-----------------------------------------------------------------------------
(* Field Store: claims C1 and C4 *)

\* C1: an upsert (a save of the form with a non-empty key) on a key of the
\* store replaces its value and category and leaves the order of all keys
\* unchanged; on a key not in the store it appends the entry after all
\* existing ones.  So the entries stay in the order of first insertion.
UpsertKeepsOrder ==
  [][ (SaveKeyValue /\ Trim(keyInput) # << >>) =>
        LET key == Trim(keyInput)
            entry == [ key |-> key,
                       data |-> [ value |-> Trim(valueInput),
                                  category |-> categorySelect ] ]
        IN IF \E i \in 1..Len(keyValueMap) : keyValueMap[i].key = key
           THEN /\ Len(keyValueMap') = Len(keyValueMap)
                /\ \A i \in 1..Len(keyValueMap) :
                     keyValueMap'[i] =
                       IF keyValueMap[i].key = key THEN entry ELSE keyValueMap[i]
           ELSE keyValueMap' = keyValueMap \o << entry >> ]_vars

\* A save has replaced value and category of the first of two entries
C1Witness ==
  /\ event.type = "modal-save"
  /\ alertMsg = None
  /\ Len(keyValueMap) = 2
  /\ keyValueMap[1].key = event.key
  /\ keyValueMap[1].data = [ value |-> << "y" >>, category |-> "medical" ]

\* C4: after the field with key oldKey is edited so that its key becomes
\* newKey # oldKey, oldKey is no longer a key of the store, and the number of
\* entries has not grown when newKey was not a key before.
RenameRemovesOldKey ==
  [][ ( /\ SaveKeyValue
        /\ event.type = "edit-kv"
        /\ Trim(keyInput) # << >>
        /\ Trim(keyInput) # event.key )
      => /\ \A i \in 1..Len(keyValueMap') : keyValueMap'[i].key # event.key
         /\ (\A i \in 1..Len(keyValueMap) : keyValueMap[i].key # Trim(keyInput))
              => Len(keyValueMap') <= Len(keyValueMap) ]_vars

-----------------------------------------------------------------------------
(* DocumentViewer of static/js/case_document_viewer.js.  Its Map holds the  *)
(* value string of each key; this.selectedLine is kept in lastSelected.     *)
(* The save and cancel buttons of the form have no listener of their own:   *)
(* editKeyValue attaches a pair of closures, kept in listeners.             *)

\* The document caseAPI.getDocument returns
CaseDocuments ==
  { [ processed_text |-> << [ key |-> << "a" >>, value |-> << "x" >> ],
                            [ key |-> << "b" >>, value |-> << "y" >> ],
                            [ key |-> << "c" >>, value |-> << "z" >> ] >>,
      raw |-> << "a", HalfColon, "x", NL >> ] }

\* viewDocument: keyValueMap.set(key, value) for each entry of processed_text
RECURSIVE LoadValues(_, _)
LoadValues(map, entries) ==
  IF entries = << >> THEN map
  ELSE LoadValues(MapSet(map, Head(entries).key, Head(entries).value),
                  Tail(entries))

\* handleSave that leaves the old key in the Map
RenameEntryKeepsOld(map, key, newKey, newValue) ==
  MapSet(map, newKey, newValue)

\* handleSave of editKeyValue for a non-empty newKey: the Map after it
RenameEntry(map, key, newKey, newValue) ==
  MapSet(IF newKey # key THEN MapDelete(map, key) ELSE map, newKey, newValue)

\* handleSave closures that delete the old key before they test the new one
RECURSIVE RunHandleSaveDeleteFirst(_, _, _, _)
RunHandleSaveDeleteFirst(st, ls, newKey, newValue) ==
  IF ls = << >> THEN st
  ELSE RunHandleSaveDeleteFirst(
         IF newKey # << >>
         THEN [ map |-> RenameEntry(st.map, Head(ls).key, newKey, newValue),
                hidden |-> TRUE ]
         ELSE [ st EXCEPT !.map = MapDelete(st.map, Head(ls).key) ],
         Tail(ls), newKey, newValue)

\* A click on #modal-save: the handleSave closures attached to it run in the
\* order they were attached; st is [map, hidden]
RECURSIVE RunHandleSave(_, _, _, _)
RunHandleSave(st, ls, newKey, newValue) ==
  IF ls = << >> THEN st
  ELSE RunHandleSave(
         IF newKey # << >>
         THEN [ map |-> RenameEntry(st.map, Head(ls).key, newKey, newValue),
                hidden |-> TRUE ]
         ELSE st,
         Tail(ls), newKey, newValue)

CaseViewerInit ==
  /\ ocrLines = << >>
  /\ renders = 0
  /\ selectedLines = << >>
  /\ processedLines = {}
  /\ lastSelected = NoLine
  /\ blue = {}
  /\ selectedText = << >>
  /\ keyValueMap = << >>
  /\ modalHidden = TRUE
  /\ modalText = << >>
  /\ keyInput = << >>
  /\ valueInput = << >>
  /\ categorySelect = None
  /\ alertMsg = None
  /\ event = Event("load", NoKeys, NoLine)
  /\ listeners = << >>
  /\ currentDocument = NoDocument
  /\ currentPage = 1
  /\ pendingDocument = NoDocument
  /\ pageBtnDisabled = NoButtonDisabled
  /\ analysis = NoAnalysis
  /\ activeCategory = "all"
  /\ fieldCategories = NoFieldCategories
  /\ loading = NoLoading
  /\ fnIn = None
  /\ fnOut = None

\* viewDocument, with renderDocument and displayOCRResults of its page
CaseViewDocument(doc) ==
  /\ modalHidden
  /\ event' = Event("viewDocument", NoKeys, NoLine)
  /\ alertMsg' = None
  /\ keyValueMap' = LoadValues(<< >>, doc.processed_text)
  /\ ocrLines' = RenderLines(SplitLines(doc.raw), 1)
  /\ blue' = {}
  /\ UNCHANGED << renders, selectedLines, processedLines, lastSelected,
                  selectedText, modalHidden, modalText, keyInput, valueInput,
                  categorySelect, listeners, currentDocument,
                  currentPage, pendingDocument, pageBtnDisabled, analysis, activeCategory, fieldCategories, loading, fnIn, fnOut >>

\* handleLineSelection(e, line): one line at a time
CaseHandleLineSelection(line) ==
  /\ modalHidden
  /\ line \in Range(ocrLines)
  /\ event' = Event("click", NoKeys, line)
  /\ alertMsg' = None
  /\ blue' = {line}
  /\ lastSelected' = line
  /\ UNCHANGED << ocrLines, renders, selectedLines, processedLines,
                  selectedText, keyValueMap, modalHidden, modalText, keyInput,
                  valueInput, categorySelect, listeners, currentDocument,
                  currentPage, pendingDocument, pageBtnDisabled, analysis, activeCategory, fieldCategories, loading, fnIn, fnOut >>

\* processSelection: fills and shows the form; attaches no listener
CaseProcessSelection ==
  /\ modalHidden
  /\ lastSelected # NoLine
  /\ event' = Event("process-btn", NoKeys, NoLine)
  /\ alertMsg' = None
  /\ LET text == Trim(lastSelected.text)
         kv == SplitKeyValue(text)
     IN /\ modalText' = text
        /\ keyInput' = kv.key
        /\ valueInput' = kv.value
  /\ modalHidden' = FALSE
  /\ UNCHANGED << ocrLines, renders, selectedLines, processedLines,
                  lastSelected, blue, selectedText, keyValueMap,
                  categorySelect, listeners, currentDocument,
                  currentPage, pendingDocument, pageBtnDisabled, analysis, activeCategory, fieldCategories, loading, fnIn, fnOut >>

\* The edit button of a field: editKeyValue(key, value)
CaseEditKeyValue(key) ==
  /\ modalHidden
  /\ MapHas(keyValueMap, key)
  /\ event' = KeyEvent("edit-kv", key)
  /\ alertMsg' = None
  /\ modalText' = << >>
  /\ keyInput' = key
  /\ valueInput' = MapGet(keyValueMap, key)
  /\ listeners' = Append(listeners, [ fn |-> "editKeyValue", key |-> key ])
  /\ modalHidden' = FALSE
  /\ UNCHANGED << ocrLines, renders, selectedLines, processedLines,
                  lastSelected, blue, selectedText, keyValueMap,
                  categorySelect, currentDocument,
                  currentPage, pendingDocument, pageBtnDisabled, analysis, activeCategory, fieldCategories, loading, fnIn, fnOut >>

\* handleSave: a click on #modal-save while closures are attached to it
CaseHandleSave ==
  /\ ~modalHidden
  /\ listeners # << >>
  /\ event' = KeyEvent("modal-save", Trim(keyInput))
  /\ alertMsg' = None
  /\ LET st == RunHandleSave([ map |-> keyValueMap, hidden |-> modalHidden ],
                             listeners, Trim(keyInput), Trim(valueInput))
     IN /\ keyValueMap' = st.map
        /\ modalHidden' = st.hidden
  /\ listeners' = << >>
  /\ UNCHANGED << ocrLines, renders, selectedLines, processedLines,
                  lastSelected, blue, selectedText, modalText, keyInput,
                  valueInput, categorySelect, currentDocument,
                  currentPage, pendingDocument, pageBtnDisabled, analysis, activeCategory, fieldCategories, loading, fnIn, fnOut >>

\* handleCancel: a click on #modal-cancel while closures are attached to it
CaseHandleCancel ==
  /\ ~modalHidden
  /\ listeners # << >>
  /\ event' = Event("modal-cancel", NoKeys, NoLine)
  /\ alertMsg' = None
  /\ modalHidden' = TRUE
  /\ listeners' = << >>
  /\ UNCHANGED << ocrLines, renders, selectedLines, processedLines,
                  lastSelected, blue, selectedText, keyValueMap, modalText,
                  keyInput, valueInput, categorySelect, currentDocument,
                  currentPage, pendingDocument, pageBtnDisabled, analysis, activeCategory, fieldCategories, loading, fnIn, fnOut >>

\* The remove button of a field; ok is the answer to confirm()
CaseRemoveKV(key, ok) ==
  /\ modalHidden
  /\ MapHas(keyValueMap, key)
  /\ event' = KeyEvent("remove-kv", key)
  /\ alertMsg' = None
  /\ keyValueMap' = IF ok THEN MapDelete(keyValueMap, key) ELSE keyValueMap
  /\ UNCHANGED << ocrLines, renders, selectedLines, processedLines,
                  lastSelected, blue, selectedText, modalHidden, modalText,
                  keyInput, valueInput, categorySelect, listeners, currentDocument,
                  currentPage, pendingDocument, pageBtnDisabled, analysis, activeCategory, fieldCategories, loading, fnIn, fnOut >>

CaseViewerNext ==
  \/ \E doc \in CaseDocuments : CaseViewDocument(doc)
  \/ \E line \in Range(ocrLines) : CaseHandleLineSelection(line)
  \/ CaseProcessSelection
  \/ \E key \in Range(MapKeys(keyValueMap)) : CaseEditKeyValue(key)
  \/ \E k \in KeyInputs : TypeKey(k)
  \/ \E v \in ValueInputs : TypeValue(v)
  \/ CaseHandleSave
  \/ CaseHandleCancel
  \/ \E key \in Range(MapKeys(keyValueMap)) : \E ok \in BOOLEAN :
       CaseRemoveKV(key, ok)

SpecCaseViewer == CaseViewerInit /\ [][CaseViewerNext]_vars

-----------------------------------------------------------------------------
(* Field Store: claim C3 *)

\* The position of key in the Map, 0 when it is not a key
KeyPos(map, key) ==
  IF \E i \in 1..Len(map) : map[i].key = key
  THEN CHOOSE i \in 1..Len(map) : map[i].key = key
  ELSE 0

\* The Map without the entry at position p
Without(map, p) == SubSeq(map, 1, p - 1) \o SubSeq(map, p + 1, Len(map))

\* C3 as stated: rename(oldKey, newKey, value) on a store that contains
\* oldKey, for a non-empty newKey other than oldKey, always leaves newKey as
\* the last key of entries(), whether or not newKey was a key of the store.
RenameAlwaysMovesToEnd ==
  [][ ( /\ CaseHandleSave
        /\ Len(listeners) = 1
        /\ KeyPos(keyValueMap, listeners[1].key) # 0
        /\ Trim(keyInput) # << >>
        /\ Trim(keyInput) # listeners[1].key )
      => /\ keyValueMap' # << >>
         /\ keyValueMap'[Len(keyValueMap')].key = Trim(keyInput) ]_vars

\* C3 amended: rename(oldKey, newKey, value) on a store that contains oldKey,
\* for a non-empty newKey: when newKey is not a key of the store, the entry
\* of oldKey is removed and newKey is the last key of entries(); when newKey
\* is oldKey the entry keeps its position and takes the value; when newKey
\* is another key of the store, the entry of oldKey is removed and newKey
\* keeps its place among the remaining keys and takes the value.
RenameMovesNewKeyToEnd ==
  [][ ( /\ CaseHandleSave
        /\ Len(listeners) = 1
        /\ KeyPos(keyValueMap, listeners[1].key) # 0
        /\ Trim(keyInput) # << >> )
      => LET oldKey == listeners[1].key
             newKey == Trim(keyInput)
             entry == [ key |-> newKey, data |-> Trim(valueInput) ]
             rest == Without(keyValueMap, KeyPos(keyValueMap, oldKey))
         IN IF KeyPos(keyValueMap, newKey) = 0
            THEN keyValueMap' = rest \o << entry >>
            ELSE IF newKey = oldKey
            THEN keyValueMap' =
                   [ keyValueMap EXCEPT ![KeyPos(keyValueMap, oldKey)] = entry ]
            ELSE keyValueMap' = [ rest EXCEPT ![KeyPos(rest, newKey)] = entry ]
     ]_vars

\* The first of three fields has been renamed to the key of the second: the
\* store holds two entries, the renamed one first
C3Witness ==
  /\ event.type = "modal-save"
  /\ event.key = << "b" >>
  /\ keyValueMap = << [ key |-> << "b" >>, data |-> << "x" >> ],
                      [ key |-> << "c" >>, data |-> << "z" >> ] >>

-----------------------------------------------------------------------------
(* DocumentViewer of static/js/case_management_viewer.js.  Its Map holds    *)
(* the value string of each key; this.lastSelectedLine is kept in           *)
(* lastSelected.  showKeyValueModal attaches the closures of the form.      *)

\* The document caseAPI.getDocument returns
ManagementDocuments ==
  { [ processed_text |-> << [ key |-> << "b" >>, value |-> << "x" >> ] >>,
      raw |-> << "a", HalfColon, "x", NL, SP >> ] }

ManagementInit ==
  /\ ocrLines = << >>
  /\ renders = 0
  /\ selectedLines = << >>
  /\ processedLines = {}
  /\ lastSelected = NoLine
  /\ blue = {}
  /\ selectedText = << >>
  /\ keyValueMap = << >>
  /\ modalHidden = TRUE
  /\ modalText = << >>
  /\ keyInput = << >>
  /\ valueInput = << >>
  /\ categorySelect = None
  /\ alertMsg = None
  /\ event = Event("load", NoKeys, NoLine)
  /\ listeners = << >>
  /\ currentDocument = NoDocument
  /\ currentPage = 1
  /\ pendingDocument = NoDocument
  /\ pageBtnDisabled = NoButtonDisabled
  /\ analysis = NoAnalysis
  /\ activeCategory = "all"
  /\ fieldCategories = NoFieldCategories
  /\ loading = NoLoading
  /\ fnIn = None
  /\ fnOut = None

\* viewDocument, with renderDocument and displayOCRResults of its page
ManagementViewDocument(doc) ==
  /\ modalHidden
  /\ event' = Event("viewDocument", NoKeys, NoLine)
  /\ alertMsg' = None
  /\ keyValueMap' = LoadValues(<< >>, doc.processed_text)
  /\ ocrLines' = RenderLines(SplitLines(doc.raw), 1)
  /\ blue' = {}
  /\ UNCHANGED << renders, selectedLines, processedLines, lastSelected,
                  selectedText, modalHidden, modalText, keyInput, valueInput,
                  categorySelect, listeners, currentDocument,
                  currentPage, pendingDocument, pageBtnDisabled, analysis, activeCategory, fieldCategories, loading, fnIn, fnOut >>

\* handleLineSelection(e, line)
HandleLineSelection(e, line) ==
  /\ modalHidden
  /\ line \in Range(ocrLines)
  /\ event' = Event("click", e, line)
  /\ alertMsg' = None
  /\ IF e.shiftKey /\ lastSelected # NoLine
     THEN LET start == PosOf(ocrLines, lastSelected)
              end == PosOf(ocrLines, line)
              range == Slice(ocrLines, Min(start, end), Max(start, end) + 1)
          IN /\ blue' = Range(range)
             /\ selectedLines' = range
             /\ UNCHANGED lastSelected
     ELSE IF e.ctrlKey
     THEN /\ blue' = IF line \in blue THEN blue \ {line} ELSE blue \cup {line}
          /\ selectedLines' = IF line \in blue'
                              THEN SetAdd(selectedLines, line)
                              ELSE SetDelete(selectedLines, line)
          /\ lastSelected' = line
     ELSE /\ blue' = {line}
          /\ selectedLines' = << line >>
          /\ lastSelected' = line
  /\ UNCHANGED << ocrLines, renders, processedLines, selectedText,
                  keyValueMap, modalHidden, modalText, keyInput, valueInput,
                  categorySelect, listeners, currentDocument,
                  currentPage, pendingDocument, pageBtnDisabled, analysis, activeCategory, fieldCategories, loading, fnIn, fnOut >>

\* showKeyValueModal(key, value): the variables it assigns
ShowKeyValueModal(key, value) ==
  /\ modalText' = key \o (IF key # << >> THEN << FullColon >> ELSE << >>) \o value
  /\ keyInput' = key
  /\ valueInput' = value
  /\ modalHidden' = FALSE
  /\ listeners' = Append(listeners, [ fn |-> "showKeyValueModal", key |-> key ])

\* processSelection (a method of the class; no element is bound to it)
ManagementProcessSelection ==
  /\ modalHidden
  /\ selectedLines # << >>
  /\ event' = Event("processSelection", NoKeys, NoLine)
  /\ alertMsg' = None
  /\ LET text == Join([ i \in 1..Len(selectedLines) |->
                          Trim(TextContent(selectedLines[i])) ], << SP >>)
         kv == SplitKeyValue(text)
     IN ShowKeyValueModal(kv.key, kv.value)
  /\ UNCHANGED << ocrLines, renders, selectedLines, processedLines,
                  lastSelected, blue, selectedText, keyValueMap,
                  categorySelect, currentDocument,
                  currentPage, pendingDocument, pageBtnDisabled, analysis, activeCategory, fieldCategories, loading, fnIn, fnOut >>

\* The edit button of a field: showKeyValueModal(key, value)
ManagementEditKV(key) ==
  /\ modalHidden
  /\ MapHas(keyValueMap, key)
  /\ event' = KeyEvent("edit-kv", key)
  /\ alertMsg' = None
  /\ ShowKeyValueModal(key, MapGet(keyValueMap, key))
  /\ UNCHANGED << ocrLines, renders, selectedLines, processedLines,
                  lastSelected, blue, selectedText, keyValueMap,
                  categorySelect, currentDocument,
                  currentPage, pendingDocument, pageBtnDisabled, analysis, activeCategory, fieldCategories, loading, fnIn, fnOut >>

\* handleSave of showKeyValueModal: a click on #modal-save; every closure
\* attached to it does the same
ManagementHandleSave ==
  /\ ~modalHidden
  /\ listeners # << >>
  /\ event' = KeyEvent("modal-save", Trim(keyInput))
  /\ alertMsg' = None
  /\ LET newKey == Trim(keyInput)
         newValue == Trim(valueInput)
     IN keyValueMap' = IF newKey # << >>
                       THEN MapSet(keyValueMap, newKey, newValue)
                       ELSE keyValueMap
  /\ modalHidden' = TRUE
  /\ listeners' = << >>
  /\ UNCHANGED << ocrLines, renders, selectedLines, processedLines,
                  lastSelected, blue, selectedText, modalText, keyInput,
                  valueInput, categorySelect, currentDocument,
                  currentPage, pendingDocument, pageBtnDisabled, analysis, activeCategory, fieldCategories, loading, fnIn, fnOut >>

\* handleCancel of showKeyValueModal: a click on #modal-cancel
ManagementHandleCancel ==
  /\ ~modalHidden
  /\ listeners # << >>
  /\ event' = Event("modal-cancel", NoKeys, NoLine)
  /\ alertMsg' = None
  /\ modalHidden' = TRUE
  /\ listeners' = << >>
  /\ UNCHANGED << ocrLines, renders, selectedLines, processedLines,
                  lastSelected, blue, selectedText, keyValueMap, modalText,
                  keyInput, valueInput, categorySelect, currentDocument,
                  currentPage, pendingDocument, pageBtnDisabled, analysis, activeCategory, fieldCategories, loading, fnIn, fnOut >>

\* The remove button of a field; ok is the answer to confirm()
ManagementRemoveKV(key, ok) ==
  /\ modalHidden
  /\ MapHas(keyValueMap, key)
  /\ event' = KeyEvent("remove-kv", key)
  /\ alertMsg' = None
  /\ keyValueMap' = IF ok THEN MapDelete(keyValueMap, key) ELSE keyValueMap
  /\ UNCHANGED << ocrLines, renders, selectedLines, processedLines,
                  lastSelected, blue, selectedText, modalHidden, modalText,
                  keyInput, valueInput, categorySelect, listeners, currentDocument,
                  currentPage, pendingDocument, pageBtnDisabled, analysis, activeCategory, fieldCategories, loading, fnIn, fnOut >>

ManagementNext ==
  \/ \E doc \in ManagementDocuments : ManagementViewDocument(doc)
  \/ \E e \in ClickEvents : \E line \in Range(ocrLines) :
       HandleLineSelection(e, line)
  \/ ManagementProcessSelection
  \/ \E key \in Range(MapKeys(keyValueMap)) : ManagementEditKV(key)
  \/ \E k \in KeyInputs : TypeKey(k)
  \/ \E v \in ValueInputs : TypeValue(v)
  \/ ManagementHandleSave
  \/ ManagementHandleCancel
  \/ \E key \in Range(MapKeys(keyValueMap)) : \E ok \in BOOLEAN :
       ManagementRemoveKV(key, ok)

SpecCMV == ManagementInit /\ [][ManagementNext]_vars

-----------------------------------------------------------------------------
(* Field Store: claim C2 *)

\* C2: an upsert with a key that is empty after trimming is refused with a
\* message shown to the user, and the store is exactly as before.
EmptyKeyIsRefusedWithMessage ==
  [][ (ManagementHandleSave /\ Trim(keyInput) = << >>)
      => /\ alertMsg' # None
         /\ keyValueMap' = keyValueMap ]_vars

-----------------------------------------------------------------------------
(* Placeholder Binder: DocumentViewer.prototype.updateReportFields of       *)
(* document_viewer/report.js, for one placeholder                           *)

\* null, the initial fieldValue
NullValue == << "null" >>

\* !fieldValue
Falsy(v) == v = NullValue \/ v = << >>

fieldMapping ==
  << [ field |-> << "n", "a", "m", "e" >>,
       terms |-> << << "u59D3", "u540D" >>,
                   << "u540D", "u5B57" >>,
                   << "u88AB", "u9274", "u5B9A", "u4EBA" >> >> ],
     [ field |-> << "g", "e", "n", "d", "e", "r" >>,
       terms |-> << << "u6027", "u522B" >> >> ],
     [ field |-> << "a", "g", "e" >>,
       terms |-> << << "u5E74", "u9F84" >>,
                   << "u5C81", "u6570" >> >> ],
     [ field |-> << "w", "o", "r", "k", "U", "n", "i", "t" >>,
       terms |-> << << "u5DE5", "u4F5C", "u5355", "u4F4D" >>,
                   << "u5355", "u4F4D" >>,
                   << "u5C31", "u804C", "u5355", "u4F4D" >> >> ],
     [ field |-> << "a", "c", "c", "i", "d", "e", "n", "t", "D", "a", "t", "e" >>,
       terms |-> << << "u4E8B", "u6545", "u65E5", "u671F" >>,
                   << "u4E8B", "u6545", "u65F6", "u95F4" >>,
                   << "u65E5", "u671F" >> >> ],
     [ field |-> << "a", "c", "c", "i", "d", "e", "n", "t", "L", "o", "c", "a", "t", "i", "o", "n" >>,
       terms |-> << << "u4E8B", "u6545", "u5730", "u70B9" >>,
                   << "u5730", "u70B9" >>,
                   << "u4F4D", "u7F6E" >> >> ],
     [ field |-> << "a", "c", "c", "i", "d", "e", "n", "t", "D", "e", "t", "a", "i", "l", "s" >>,
       terms |-> << << "u4E8B", "u6545", "u7ECF", "u8FC7" >>,
                   << "u4E8B", "u6545", "u63CF", "u8FF0" >>,
                   << "u7ECF", "u8FC7" >>,
                   << "u63CF", "u8FF0" >> >> ],
     [ field |-> << "h", "o", "s", "p", "i", "t", "a", "l" >>,
       terms |-> << << "u533B", "u9662" >>,
                   << "u5C31", "u8BCA", "u533B", "u9662" >>,
                   << "u4F4F", "u9662", "u533B", "u9662" >> >> ],
     [ field |-> << "d", "i", "a", "g", "n", "o", "s", "i", "s" >>,
       terms |-> << << "u8BCA", "u65AD" >>,
                   << "u8BCA", "u65AD", "u7ED3", "u679C" >>,
                   << "u4F24", "u60C5" >> >> ],
     [ field |-> << "h", "o", "s", "p", "i", "t", "a", "l", "D", "a", "y", "s" >>,
       terms |-> << << "u4F4F", "u9662", "u5929", "u6570" >>,
                   << "u4F4F", "u9662", "u65F6", "u95F4" >> >> ],
     [ field |-> << "c", "o", "n", "c", "l", "u", "s", "i", "o", "n" >>,
       terms |-> << << "u7ED3", "u8BBA" >>,
                   << "u9274", "u5B9A", "u7ED3", "u8BBA" >>,
                   << "u4F24", "u6B8B", "u7B49", "u7EA7" >> >> ],
     [ field |-> << "a", "s", "s", "e", "s", "s", "m", "e", "n", "t", "O", "r", "g" >>,
       terms |-> << << "u9274", "u5B9A", "u673A", "u6784" >>,
                   << "u9274", "u5B9A", "u5355", "u4F4D" >> >> ],
     [ field |-> << "a", "s", "s", "e", "s", "s", "m", "e", "n", "t", "D", "a", "t", "e" >>,
       terms |-> << << "u9274", "u5B9A", "u65E5", "u671F" >>,
                   << "u9274", "u5B9A", "u65F6", "u95F4" >> >> ],
     [ field |-> << "a", "s", "s", "e", "s", "s", "o", "r" >>,
       terms |-> << << "u9274", "u5B9A", "u4EBA" >>,
                   << "u9274", "u5B9A", "u4E13", "u5BB6" >> >> ],
     [ field |-> << "c", "e", "r", "t", "N", "u", "m", "b", "e", "r" >>,
       terms |-> << << "u8BC1", "u4E66", "u7F16", "u53F7" >>,
                   << "u6267", "u4E1A", "u8BC1", "u53F7" >>,
                   << "u7F16", "u53F7" >> >> ] >>

\* fieldMapping[fieldName]: the terms of the field, << >> for undefined
MatchTerms(fieldName) ==
  IF \E i \in 1..Len(fieldMapping) : fieldMapping[i].field = fieldName
  THEN fieldMapping[CHOOSE i \in 1..Len(fieldMapping) :
                      fieldMapping[i].field = fieldName].terms
  ELSE << >>

\* The direct match: the value of the first entry whose key is fieldName or
\* equals it up to case
DirectMatch(fieldName, map) ==
  LET hit(i) == \/ map[i].key = fieldName
                \/ ToLowerCase(map[i].key) = ToLowerCase(fieldName)
  IN IF \E i \in 1..Len(map) : hit(i)
     THEN map[CHOOSE i \in 1..Len(map) :
                hit(i) /\ \A j \in 1..(i - 1) : ~hit(j)].data.value
     ELSE NullValue

\* The loops over the entries and the terms: an entry with a key that
\* contains a term or is contained in one gives its value; the loop over the
\* entries ends at the first value that is not falsy
RECURSIVE InferLoop(_, _, _)
InferLoop(fieldValue, entries, matchTerms) ==
  IF entries = << >> THEN fieldValue
  ELSE LET key == Head(entries).key
           found == \E t \in 1..Len(matchTerms) :
                      Includes(key, matchTerms[t]) \/ Includes(matchTerms[t], key)
           next == IF found THEN Head(entries).data.value ELSE fieldValue
       IN IF ~Falsy(next) THEN next
          ELSE InferLoop(next, Tail(entries), matchTerms)

\* fieldValue of a placeholder at the end of the callback of forEach
ResolveField(fieldName, map) ==
  LET direct == DirectMatch(fieldName, map)
  IN IF ~Falsy(direct) THEN direct
     ELSE IF MatchTerms(fieldName) # << >>
     THEN InferLoop(direct, map, MatchTerms(fieldName))
     ELSE direct

MaxFields == 2        \* entries of a store given to the binder

\* data-field of the placeholders, keys and values of the stores
FieldNames == { << "n", "a", "m", "e" >>, << "N", "a", "m", "e" >>, << "h", "o", "s", "p", "i", "t", "a", "l" >> }
ResolveKeys ==
  { << "n", "a", "m", "e" >>,
    << "N", "a", "m", "e" >>,
    << "N", "A", "M", "E" >>,
    << "u59D3", "u540D" >>,
    << "u540D", "u5B57" >>,
    << "u533B", "u9662" >> }
ResolveValues == { << "x" >>, << "y" >>, << >> }

\* The stores: up to MaxFields entries with distinct keys
ResolveStores ==
  { st \in SeqsUpTo([ key : ResolveKeys,
                      data : [ value : ResolveValues, category : {"personal"} ] ],
                    MaxFields) :
      \A i, j \in 1..Len(st) : i # j => st[i].key # st[j].key }

ResolveInit ==
  /\ fnIn \in [ fieldName : FieldNames, map : ResolveStores ]
  /\ fnOut = << >>
  /\ ocrLines = << >>
  /\ renders = 0
  /\ selectedLines = << >>
  /\ processedLines = {}
  /\ lastSelected = NoLine
  /\ blue = {}
  /\ selectedText = << >>
  /\ keyValueMap = << >>
  /\ modalHidden = TRUE
  /\ modalText = << >>
  /\ keyInput = << >>
  /\ valueInput = << >>
  /\ categorySelect = None
  /\ alertMsg = None
  /\ event = Event("load", NoKeys, NoLine)
  /\ listeners = << >>
  /\ currentDocument = NoDocument
  /\ currentPage = 1
  /\ pendingDocument = NoDocument
  /\ pageBtnDisabled = NoButtonDisabled
  /\ analysis = NoAnalysis
  /\ activeCategory = "all"
  /\ fieldCategories = NoFieldCategories
  /\ loading = NoLoading

\* updateReportFields for the placeholder fnIn.fieldName
Resolve ==
  /\ fnOut = << >>
  /\ fnOut' = << ResolveField(fnIn.fieldName, fnIn.map) >>
  /\ UNCHANGED << fnIn, classVars >>

ResolveNext == Resolve

SpecResolve == ResolveInit /\ [][ResolveNext]_vars

\* C10: when a key of the store equals the placeholder name exactly, resolve
\* returns the value of that key, even when a key that equals the name only
\* up to case comes earlier in the store (stated for stores whose values are
\* all non-empty).
ExactMatchBeforeCaseInsensitive ==
  ( /\ fnOut # << >>
    /\ \A i \in 1..Len(fnIn.map) : fnIn.map[i].data.value # << >>
    /\ \E i \in 1..Len(fnIn.map) : fnIn.map[i].key = fnIn.fieldName )
  => \E i \in 1..Len(fnIn.map) :
       /\ fnIn.map[i].key = fnIn.fieldName
       /\ fnOut[1] = fnIn.map[i].data.value

-----------------------------------------------------------------------------
(* Placeholder Binder: claims C11 and C12 *)

\* The entry at position i of the map equals the name, exactly or up to case
IsDirectHit(fieldName, map, i) ==
  \/ map[i].key = fieldName
  \/ ToLowerCase(map[i].key) = ToLowerCase(fieldName)

\* The bidirectional test of an entry against one alias
AliasHit(map, i, alias) ==
  Includes(map[i].key, alias) \/ Includes(alias, map[i].key)

\* C11: when no key matches the name exactly or up to case, resolve takes the
\* aliases in list order and, for each, scans the store in iteration order:
\* it returns the value of the first entry that matches the earliest alias
\* with any match, even when an entry matching only a later alias comes
\* first in the store (stated for stores whose values are all non-empty).
AliasOrderBeforeStoreOrder ==
  LET map == fnIn.map
      terms == MatchTerms(fnIn.fieldName)
      hitTerms == { t \in 1..Len(terms) :
                      \E i \in 1..Len(map) : AliasHit(map, i, terms[t]) }
  IN ( /\ fnOut # << >>
       /\ \A i \in 1..Len(map) : map[i].data.value # << >>
       /\ \A i \in 1..Len(map) : ~IsDirectHit(fnIn.fieldName, map, i)
       /\ hitTerms # {} )
     => LET alias == terms[Least(hitTerms)]
            first == Least({ i \in 1..Len(map) : AliasHit(map, i, alias) })
        IN fnOut[1] = map[first].data.value

\* C12: resolve returns null exactly when no stage matches an entry; when
\* the first matching entry (here: of the direct stage) has the empty string
\* as its value, resolve returns that empty string and not the value of
\* another field.
EmptyValueIsNotNoData ==
  LET map == fnIn.map
      terms == MatchTerms(fnIn.fieldName)
      direct == { i \in 1..Len(map) : IsDirectHit(fnIn.fieldName, map, i) }
      alias == { i \in 1..Len(map) :
                   \E t \in 1..Len(terms) : AliasHit(map, i, terms[t]) }
  IN fnOut # << >> =>
       /\ (fnOut[1] = NullValue) <=> (direct = {} /\ alias = {})
       /\ (direct # {} /\ map[Least(direct)].data.value = << >>)
            => fnOut[1] = << >>

-----------------------------------------------------------------------------
(* Placeholder Binder, write side: updateFieldInKeyValueMap and             *)
(* guessFieldCategory of document_viewer/init.js (a click on a placeholder  *)
(* of the report and the value given to prompt())                           *)

personalFields ==
  << << "n", "a", "m", "e" >>,
     << "g", "e", "n", "d", "e", "r" >>,
     << "a", "g", "e" >>,
     << "w", "o", "r", "k", "U", "n", "i", "t" >> >>

medicalFields ==
  << << "h", "o", "s", "p", "i", "t", "a", "l" >>,
     << "d", "i", "a", "g", "n", "o", "s", "i", "s" >>,
     << "h", "o", "s", "p", "i", "t", "a", "l", "D", "a", "y", "s" >> >>

incidentFields ==
  << << "a", "c", "c", "i", "d", "e", "n", "t", "D", "a", "t", "e" >>,
     << "a", "c", "c", "i", "d", "e", "n", "t", "L", "o", "c", "a", "t", "i", "o", "n" >>,
     << "a", "c", "c", "i", "d", "e", "n", "t", "D", "e", "t", "a", "i", "l", "s" >> >>

legalFields ==
  << << "c", "o", "n", "c", "l", "u", "s", "i", "o", "n" >>,
     << "a", "s", "s", "e", "s", "s", "m", "e", "n", "t", "O", "r", "g" >>,
     << "a", "s", "s", "e", "s", "s", "m", "e", "n", "t", "D", "a", "t", "e" >>,
     << "a", "s", "s", "e", "s", "s", "o", "r" >>,
     << "c", "e", "r", "t", "N", "u", "m", "b", "e", "r" >> >>

\* guessFieldCategory(fieldName)
GuessFieldCategory(fieldName) ==
  IF fieldName \in Range(personalFields) THEN "personal"
  ELSE IF fieldName \in Range(medicalFields) THEN "medical"
  ELSE IF fieldName \in Range(incidentFields) THEN "incident"
  ELSE IF fieldName \in Range(legalFields) THEN "legal"
  ELSE "personal"

\* fieldMapping[fieldName] || [fieldName]; init.js repeats the table of
\* report.js
PotentialKeys(fieldName) ==
  IF MatchTerms(fieldName) # << >> THEN MatchTerms(fieldName)
  ELSE << fieldName >>

\* The test of an entry against one potential key
PotentialHit(map, i, potentialKey) ==
  \/ map[i].key = potentialKey
  \/ Includes(map[i].key, potentialKey)
  \/ Includes(potentialKey, map[i].key)

\* updateFieldInKeyValueMap without its loop over the entries: the first
\* potential key is set whatever the Map holds
UpdateFieldCreating(fieldName, newValue, map) ==
  MapSet(map, PotentialKeys(fieldName)[1],
         [ value |-> newValue, category |-> GuessFieldCategory(fieldName) ])

\* updateFieldInKeyValueMap(fieldName, newValue): the Map after it.  The
\* first entry, in Map order, that passes the test for any potential key gets
\* the value; without such an entry the first potential key is set
UpdateField(fieldName, newValue, map) ==
  LET potentialKeys == PotentialKeys(fieldName)
      hits == { i \in 1..Len(map) :
                  \E p \in 1..Len(potentialKeys) :
                    PotentialHit(map, i, potentialKeys[p]) }
  IN IF hits # {}
     THEN LET i == Least(hits)
          IN MapSet(map, map[i].key,
                    [ value |-> newValue, category |-> map[i].data.category ])
     ELSE MapSet(map, potentialKeys[1],
                 [ value |-> newValue,
                   category |-> GuessFieldCategory(fieldName) ])

\* data-field of the placeholders of the report, and one without aliases
BindFieldNames ==
  { fieldMapping[i].field : i \in 1..Len(fieldMapping) } \cup { << "o", "t", "h", "e", "r" >> }

\* The answers to prompt() that pass newValue.trim () !== ''
PromptValues == { << "v" >>, << SP, "w" >> }

BindInit ==
  /\ fnIn \in [ fieldName : BindFieldNames, newValue : PromptValues,
                map : ResolveStores ]
  /\ fnOut = << >>
  /\ ocrLines = << >>
  /\ renders = 0
  /\ selectedLines = << >>
  /\ processedLines = {}
  /\ lastSelected = NoLine
  /\ blue = {}
  /\ selectedText = << >>
  /\ keyValueMap = << >>
  /\ modalHidden = TRUE
  /\ modalText = << >>
  /\ keyInput = << >>
  /\ valueInput = << >>
  /\ categorySelect = None
  /\ alertMsg = None
  /\ event = Event("load", NoKeys, NoLine)
  /\ listeners = << >>
  /\ currentDocument = NoDocument
  /\ currentPage = 1
  /\ pendingDocument = NoDocument
  /\ pageBtnDisabled = NoButtonDisabled
  /\ analysis = NoAnalysis
  /\ activeCategory = "all"
  /\ fieldCategories = NoFieldCategories
  /\ loading = NoLoading

\* The click handler of a placeholder, after prompt() has returned newValue
UpdateFieldInKeyValueMap ==
  /\ fnOut = << >>
  /\ fnOut' = << UpdateField(fnIn.fieldName, fnIn.newValue, fnIn.map) >>
  /\ UNCHANGED << fnIn, classVars >>

BindNext == UpdateFieldInKeyValueMap

SpecBind == BindInit /\ [][BindNext]_vars

\* C13: bindNew(placeholderName, value), when no field of the store
\* corresponds to an alias of the placeholder, creates exactly one field:
\* its key is the first alias, its value the given value, its category
\* classify(firstAlias); all other entries are unchanged.
BindNewUsesClassifier ==
  LET map == fnIn.map
      aliases == MatchTerms(fnIn.fieldName)
  IN ( /\ fnOut # << >>
       /\ aliases # << >>
       /\ \A i \in 1..Len(map) : \A p \in 1..Len(aliases) :
            ~PotentialHit(map, i, aliases[p]) )
     => fnOut[1] = map \o << [ key |-> aliases[1],
                               data |-> [ value |-> fnIn.newValue,
                                          category |-> GuessCategory(aliases[1]) ] ] >>

-----------------------------------------------------------------------------
(* AIAnalyzer (static/js/analysis.js) on the page of index.html, next to    *)
(* the OCRProcessor whose #kv-display it reads.  A request is the promise   *)
(* chain of one startAnalysis: [phase, body, read, acc]; body is the        *)
(* response as the chunks reader.read() returns, read the number of chunks  *)
(* consumed, acc the accumulatedText of handleStreamResponse.  The steps of  *)
(* a promise chain are no DOM events: they leave event and alertMsg alone.  *)

MaxAnalyses == 2      \* calls of startAnalysis in one run

\* Tokens of a stream: the prefix "data: ", the JSON text of an object
\* {"choices":[{"delta":{"content":c}}]} as "{", c, "}", and "[DONE]"
DataPrefix == "data: "
Done == "[DONE]"

\* The bodies of the responses, each as a sequence of chunks
ResponseBodies ==
  { << << DataPrefix, "{", "A", "}", NL, NL, "x", NL,
          DataPrefix, "{", "B", NL,
          DataPrefix, "{", "C", "}", NL, DataPrefix, Done, NL >> >>,
    << << DataPrefix, "{", "A", "}", NL, DataPrefix, "{" >>,
       << "B", "}", NL >> >> }

\* JSON.parse(jsonLine) and json.choices[0].delta.content: the content of a
\* well-formed object, << >> when JSON.parse throws
DeltaContent(jsonLine) ==
  IF Len(jsonLine) = 3 /\ jsonLine[1] = "{" /\ jsonLine[3] = "}"
       /\ jsonLine[2] \notin {"{", "}", DataPrefix, Done, NL, SP}
  THEN << jsonLine[2] >>
  ELSE << >>

\* isValidStreamLine(line)
IsValidStreamLine(line) ==
  /\ Trim(line) # << >>
  /\ Trim(line) # << DataPrefix, Done >>
  /\ line # << >> /\ Head(line) = DataPrefix

\* line.replace("data: ", ""): the first occurrence is taken out
ReplaceDataPrefix(line) ==
  LET i == IndexOf(line, DataPrefix)
  IN IF i = -1 THEN line
     ELSE Substring(line, 0, i) \o SubstringFrom(line, i + 1)

\* The for loop of handleStreamResponse over the lines of one chunk:
\* accumulatedText after it
RECURSIVE AccumulateLines(_, _)
AccumulateLines(acc, lines) ==
  IF lines = << >> THEN acc
  ELSE AccumulateLines(
         IF IsValidStreamLine(Head(lines))
         THEN acc \o DeltaContent(ReplaceDataPrefix(Head(lines)))
         ELSE acc,
         Tail(lines))

\* handleError(error) in its catch: the results pane after it.  The class
\* body is strict code, so the assignment to the undeclared errorMessage
\* throws before the pane is written when the error is an abort; otherwise
\* the pane gets the failure message before the read of errorMessage throws
HandleError(div, isAbort) ==
  IF isAbort THEN div
  ELSE [ text |-> << >>, tail |-> << "failed" >> ]

\* cancelAnalysis: innerHTML += the banner
CancelledResults(div) ==
  [ text |-> div.text, tail |-> Append(div.tail, "cancelled") ]

\* A request whose chain has ended by an error or an abort: the locals of
\* handleStreamResponse are gone
Ended(phase) ==
  [ phase |-> phase, body |-> << >>, read |-> 0, acc |-> << >> ]

\* resetButtons / resetAnalyzeButton
ResetButtons(a) ==
  [ a EXCEPT !.analyzeDisabled = FALSE, !.cancelHidden = TRUE, !.controller = 0 ]

\* The raw text OCRProcessor.displayResults gets on this page
AnalysisPages == << << "k", FullColon, "v", NL >> >>

\* saveKeyValue of OCRProcessor, with updateKVDisplay and hideModal;
\* updateKVDisplay sets #analyze-btn disabled to "the Map is empty"
OcrSaveKeyValue ==
  /\ ~modalHidden
  /\ event' = KeyEvent("modal-save", Trim(keyInput))
  /\ LET key == Trim(keyInput)
     IN IF key = << >>
        THEN /\ alertMsg' = EnterFieldName
             /\ UNCHANGED << keyValueMap, modalHidden, keyInput, valueInput,
                             analysis >>
        ELSE /\ alertMsg' = None
             /\ keyValueMap' = MapSet(keyValueMap, key, Trim(valueInput))
             /\ analysis' = [ analysis EXCEPT !.analyzeDisabled = FALSE ]
             /\ modalHidden' = TRUE
             /\ keyInput' = << >>
             /\ valueInput' = << >>
  /\ UNCHANGED << ocrLines, renders, selectedLines, processedLines,
                  lastSelected, blue, selectedText, modalText, categorySelect,
                  listeners, currentDocument, currentPage, pendingDocument, pageBtnDisabled,
                  activeCategory, fieldCategories, loading, fnIn, fnOut >>

\* The remove button of a field (attachRemoveHandlers); ok is the answer to
\* confirm()
OcrRemoveKV(key, ok) ==
  /\ modalHidden
  /\ MapHas(keyValueMap, key)
  /\ event' = KeyEvent("remove-kv", key)
  /\ alertMsg' = None
  /\ keyValueMap' = IF ok THEN MapDelete(keyValueMap, key) ELSE keyValueMap
  /\ analysis' = IF ok
                 THEN [ analysis EXCEPT !.analyzeDisabled = (keyValueMap' = << >>) ]
                 ELSE analysis
  /\ UNCHANGED << ocrLines, renders, selectedLines, processedLines,
                  lastSelected, blue, selectedText, modalHidden, modalText,
                  keyInput, valueInput, categorySelect, listeners,
                  currentDocument, currentPage, pendingDocument, pageBtnDisabled, activeCategory, fieldCategories, loading, fnIn, fnOut >>

\* The variables no step of the AIAnalyzer assigns
analysisFrame ==
  << ocrLines, renders, selectedLines, processedLines, lastSelected, blue,
     selectedText, modalHidden, modalText, keyInput, valueInput,
     categorySelect, listeners, currentDocument, currentPage,
     pendingDocument, pageBtnDisabled, activeCategory, fieldCategories, loading, fnIn, fnOut >>

\* startAnalysis: the click on #analyze-btn.  entries is the text of
\* #kv-display, empty exactly when the Map is empty
StartAnalysis ==
  /\ modalHidden
  /\ ~analysis.analyzeDisabled
  /\ Len(analysis.requests) < MaxAnalyses
  /\ event' = Event("analyze-btn", NoKeys, NoLine)
  /\ alertMsg' = None
  /\ IF keyValueMap = << >>
     THEN UNCHANGED analysis
     ELSE analysis' =
            [ analysis EXCEPT
                !.analyzeDisabled = TRUE,
                !.cancelHidden = FALSE,
                !.resultsDiv = EmptyResults,
                !.controller = Len(analysis.requests) + 1,
                !.requests = Append(analysis.requests,
                                    [ phase |-> "fetching", body |-> << >>,
                                      read |-> 0, acc |-> << >> ]) ]
  /\ UNCHANGED << keyValueMap, analysisFrame >>

\* The response of request r arrives with response.ok: handleStreamResponse
\* up to its first reader.read()
ResponseArrives(r, body) ==
  /\ analysis.requests[r].phase = "fetching"
  /\ UNCHANGED << event, alertMsg >>
  /\ analysis' = [ analysis EXCEPT !.requests[r].phase = "streaming",
                                   !.requests[r].body = body ]
  /\ UNCHANGED << keyValueMap, analysisFrame >>

\* A rejected fetch whose chain ends with the catch: no finally runs
RequestFailsWithoutFinally(r) ==
  /\ analysis.requests[r].phase = "fetching"
  /\ UNCHANGED << event, alertMsg >>
  /\ analysis' =
       [ analysis EXCEPT
           !.requests[r] = Ended("failed"),
           !.resultsDiv = HandleError(analysis.resultsDiv, FALSE) ]
  /\ UNCHANGED << keyValueMap, analysisFrame >>

\* fetch of request r rejects, or the response is not ok: handleError in
\* the catch, then the finally
RequestFails(r) ==
  /\ analysis.requests[r].phase = "fetching"
  /\ UNCHANGED << event, alertMsg >>
  /\ analysis' =
       ResetButtons([ analysis EXCEPT
                        !.requests[r] = Ended("failed"),
                        !.resultsDiv = HandleError(analysis.resultsDiv, FALSE) ])
  /\ UNCHANGED << keyValueMap, analysisFrame >>

\* reader.read() of request r returns a chunk: the loop over its lines,
\* with updateDisplay after each content appended
ReceiveChunk(r) ==
  /\ analysis.requests[r].phase = "streaming"
  /\ analysis.requests[r].read < Len(analysis.requests[r].body)
  /\ UNCHANGED << event, alertMsg >>
  /\ LET req == analysis.requests[r]
         chunk == req.body[req.read + 1]
         acc == AccumulateLines(req.acc, SplitLines(chunk))
     IN analysis' =
          [ analysis EXCEPT
              !.requests[r].read = req.read + 1,
              !.requests[r].acc = acc,
              !.resultsDiv = IF acc # req.acc
                             THEN [ text |-> acc, tail |-> << >> ]
                             ELSE analysis.resultsDiv ]
  /\ UNCHANGED << keyValueMap, analysisFrame >>

\* reader.read() of request r returns done, or rejects (the catch around the
\* loop swallows the error): the finally of startAnalysis
StreamEnds(r) ==
  /\ analysis.requests[r].phase = "streaming"
  /\ UNCHANGED << event, alertMsg >>
  /\ analysis' =
       ResetButtons([ analysis EXCEPT
                        !.requests[r] =
                          IF analysis.requests[r].read
                               = Len(analysis.requests[r].body)
                          THEN [ analysis.requests[r] EXCEPT !.phase = "done" ]
                          ELSE Ended("failed") ])
  /\ UNCHANGED << keyValueMap, analysisFrame >>

\* cancelAnalysis that also empties the Map
CancelAnalysisClearing ==
  /\ modalHidden
  /\ ~analysis.cancelHidden
  /\ event' = Event("cancel-analyze-btn", NoKeys, NoLine)
  /\ alertMsg' = None
  /\ analysis' = ResetButtons(analysis)
  /\ keyValueMap' = << >>
  /\ UNCHANGED analysisFrame

\* cancelAnalysis: the click on #cancel-analyze-btn.  abort() rejects the
\* pending fetch or read of the request of this.controller; its reactions
\* (handleError for a fetch, the swallowing catch for a read, the finally)
\* run before any other event
CancelAnalysis ==
  /\ modalHidden
  /\ ~analysis.cancelHidden
  /\ event' = Event("cancel-analyze-btn", NoKeys, NoLine)
  /\ alertMsg' = None
  /\ IF analysis.controller = 0
     THEN UNCHANGED analysis
     ELSE LET r == analysis.controller
              wasFetching == analysis.requests[r].phase = "fetching"
              div == CancelledResults(analysis.resultsDiv)
          IN analysis' =
               ResetButtons([ analysis EXCEPT
                                !.requests[r] = Ended("aborted"),
                                !.resultsDiv = IF wasFetching
                                               THEN HandleError(div, TRUE)
                                               ELSE div ])
  /\ UNCHANGED << keyValueMap, analysisFrame >>

\* A step of the AIAnalyzer
AnalysisStep ==
  \/ StartAnalysis
  \/ \E r \in 1..Len(analysis.requests) : \E body \in ResponseBodies :
       ResponseArrives(r, body)
  \/ \E r \in 1..Len(analysis.requests) : RequestFails(r)
  \/ \E r \in 1..Len(analysis.requests) : ReceiveChunk(r)
  \/ \E r \in 1..Len(analysis.requests) : StreamEnds(r)
  \/ CancelAnalysis

AnalysisInit == SelectInit

AnalysisNext ==
  \/ \E p \in 1..Len(AnalysisPages) : DisplayResults(AnalysisPages[p])
  \/ \E e \in ClickEvents : \E line \in Range(ocrLines) : HandleLineClick(e, line)
  \/ ProcessSelection
  \/ HideModal
  \/ OcrSaveKeyValue
  \/ \E key \in Range(MapKeys(keyValueMap)) : \E ok \in BOOLEAN :
       OcrRemoveKV(key, ok)
  \/ StartAnalysis
  \/ \E r \in 1..Len(analysis.requests) : \E body \in ResponseBodies :
       ResponseArrives(r, body)
  \/ \E r \in 1..Len(analysis.requests) : RequestFails(r)
  \/ \E r \in 1..Len(analysis.requests) : ReceiveChunk(r)
  \/ \E r \in 1..Len(analysis.requests) : StreamEnds(r)
  \/ CancelAnalysis

SpecAnalysis == AnalysisInit /\ [][AnalysisNext]_vars

\* C14: no step of the analysis (start, response, chunk, end of stream,
\* failure, cancel) changes the Field Store: the Map has the same entries
\* in the same order after it
AnalysisLeavesStore ==
  [][AnalysisStep => keyValueMap' = keyValueMap]_vars

\* A cancel of a request whose text is in the results pane, with fields in
\* the store
C14Witness ==
  /\ event.type = "cancel-analyze-btn"
  /\ keyValueMap # << >>
  /\ analysis.resultsDiv.text # << >>
  /\ analysis.resultsDiv.tail = << "cancelled" >>
  /\ analysis.requests[Len(analysis.requests)].phase = "aborted"

\* The content of every well-formed data line of a response, in order
ContentOfLines(body) ==
  AccumulateLines(<< >>, SplitLines(Concat(body)))

\* C15: when the stream of a request has ended, its accumulator is the
\* concatenation, in order, of the content of every well-formed "data: "
\* line of the response
AccumulatorIsContentOfLines ==
  \A r \in 1..Len(analysis.requests) :
    analysis.requests[r].phase = "done"
      => analysis.requests[r].acc = ContentOfLines(analysis.requests[r].body)

\* C16: once the user has cancelled the analysis started last, the results
\* pane shows no later fragment: it changes only with the next start
NoFragmentShownAfterCancel ==
  [][ ( /\ analysis.requests # << >>
        /\ analysis.requests[Len(analysis.requests)].phase = "aborted"
        /\ Len(analysis'.requests) = Len(analysis.requests) )
      => analysis'.resultsDiv = analysis.resultsDiv ]_vars

\* C19: a drop changes the category only.  For a key of the Map the keys
\* keep their order, the value of the key and every other entry are as
\* before; for a key the Map does not have, the Map is unchanged and
\* nothing is reported
RecategorizeChangesCategoryOnly ==
  [][ \A key \in DropKeys : \A c \in CategoryInputs :
        DropField(key, c) =>
          /\ alertMsg' = None
          /\ IF MapHas(keyValueMap, key)
             THEN /\ MapKeys(keyValueMap') = MapKeys(keyValueMap)
                  /\ MapGet(keyValueMap', key).value
                       = MapGet(keyValueMap, key).value
                  /\ MapGet(keyValueMap', key).category = c
                  /\ \A i \in 1..Len(keyValueMap) :
                       keyValueMap[i].key # key
                         => keyValueMap'[i] = keyValueMap[i]
             ELSE keyValueMap' = keyValueMap ]_vars

\* A drop has set the category of the first of two fields to one the
\* classifier does not give it
C19Witness ==
  /\ event.type = "drop"
  /\ Len(keyValueMap) = 2
  /\ keyValueMap[1].key = event.key
  /\ keyValueMap[1].data.category # GuessCategory(event.key)

\* A drop whose key the Map does not have (the field was removed)
DropOfAbsentKey ==
  /\ event.type = "drop"
  /\ keyValueMap # << >>
  /\ ~MapHas(keyValueMap, event.key)

-----------------------------------------------------------------------------
(* Document and page changes of the document viewer: viewDocument with its *)
(* await, openDocument with a document object, and the page buttons.       *)

\* The Map viewDocument builds for a document
FreshStore(doc) == LoadProcessedText(<< >>, doc.processed_text)

\* The variables of the form and of the other classes, which no document or
\* page change assigns
pageFrame ==
  << renders, selectedLines, processedLines, lastSelected, modalHidden,
     modalText, keyInput, valueInput, categorySelect, listeners, analysis,
     activeCategory, loading, fnIn, fnOut >>

\* viewDocument up to its await: getDocument is called for doc (one request
\* in flight at a time)
RequestDocument(doc) ==
  /\ modalHidden
  /\ pendingDocument = NoDocument
  /\ event' = Event("viewDocument", NoKeys, NoLine)
  /\ alertMsg' = None
  /\ pendingDocument' = doc
  /\ UNCHANGED << ocrLines, blue, selectedText, keyValueMap, currentDocument,
                  currentPage, pageBtnDisabled, fieldCategories, pageFrame >>

\* viewDocument after its await: getDocument has answered, whatever the
\* user did in between
DocumentLoaded ==
  /\ pendingDocument # NoDocument
  /\ event' = Event("document-loaded", NoKeys, NoLine)
  /\ alertMsg' = None
  /\ currentDocument' = pendingDocument
  /\ currentPage' = 1
  /\ keyValueMap' = FreshStore(pendingDocument)
  /\ selectedText' = << >>
  /\ ocrLines' = RenderPageLines(pendingDocument, 1, ocrLines)
  /\ blue' = RenderPageMarks(pendingDocument, 1, blue)
  /\ pageBtnDisabled' = PageButtons(pendingDocument, 1)
  /\ pendingDocument' = NoDocument
  /\ fieldCategories' = UpdateKVDisplay(keyValueMap', activeCategory, NoFieldCategories)
  /\ UNCHANGED pageFrame

\* getDocument rejects: the catch of viewDocument shows the error
DocumentFails ==
  /\ pendingDocument # NoDocument
  /\ event' = Event("document-failed", NoKeys, NoLine)
  /\ alertMsg' = None
  /\ pendingDocument' = NoDocument
  /\ UNCHANGED << ocrLines, blue, selectedText, keyValueMap, currentDocument,
                  currentPage, pageBtnDisabled, fieldCategories, pageFrame >>

\* openDocument(documentName, documentPath, documentObject) with a document
\* object, and its renderDocument
OpenDocument(documentObject) ==
  /\ modalHidden
  /\ event' = Event("openDocument", NoKeys, NoLine)
  /\ alertMsg' = None
  /\ currentDocument' = documentObject
  /\ currentPage' = 1
  /\ ocrLines' = RenderPageLines(documentObject, 1, ocrLines)
  /\ blue' = RenderPageMarks(documentObject, 1, blue)
  /\ pageBtnDisabled' = PageButtons(documentObject, 1)
  /\ fieldCategories' = UpdateKVDisplay(keyValueMap, activeCategory, fieldCategories)
  /\ UNCHANGED << selectedText, keyValueMap, pendingDocument, pageFrame >>

\* changePage(delta): the click on the previous (-1) or next (1) button, and
\* its renderDocument
ChangePage(delta) ==
  /\ modalHidden
  /\ ~(IF delta = 1 THEN pageBtnDisabled.next ELSE pageBtnDisabled.prev)
  /\ event' = Event(IF delta = 1 THEN "next-page" ELSE "prev-page",
                    NoKeys, NoLine)
  /\ alertMsg' = None
  /\ LET newPage == currentPage + delta
     IN IF \/ currentDocument = NoDocument
           \/ newPage < 1
           \/ newPage > Len(currentDocument.pages)
        THEN UNCHANGED << currentPage, ocrLines, blue, pageBtnDisabled,
                          fieldCategories >>
        ELSE /\ currentPage' = newPage
             /\ ocrLines' = RenderPageLines(currentDocument, newPage, ocrLines)
             /\ blue' = RenderPageMarks(currentDocument, newPage, blue)
             /\ pageBtnDisabled' = PageButtons(currentDocument, newPage)
             /\ fieldCategories' =
                  UpdateKVDisplay(keyValueMap, activeCategory, fieldCategories)
  /\ UNCHANGED << selectedText, keyValueMap, currentDocument, pendingDocument,
                  pageFrame >>

PagesNext ==
  \/ \E doc \in Documents : RequestDocument(doc)
  \/ DocumentLoaded
  \/ DocumentFails
  \/ \E doc \in Documents : OpenDocument(doc)
  \/ \E delta \in {-1, 1} : ChangePage(delta)
  \/ ShowAddCustomFieldModal
  \/ \E k \in KeyInputs : TypeKey(k)
  \/ \E v \in ValueInputs : TypeValue(v)
  \/ SaveKeyValue
  \/ ViewerHideModal
  \/ \E key \in Range(MapKeys(keyValueMap)) : \E ok \in BOOLEAN : RemoveKV(key, ok)

SpecPages == ViewerInit /\ [][PagesNext]_vars

\* C17: after every step that changes the document or the page shown, the
\* store holds only what viewDocument builds for the document now shown: no
\* field added while another document or page was shown
StoreIsFreshAfterChange ==
  [][ (currentDocument' # currentDocument \/ currentPage' # currentPage)
      => \A i \in 1..Len(keyValueMap') :
           keyValueMap'[i] \in Range(FreshStore(currentDocument')) ]_vars

\* C18: a form that was open when the document and page shown changed is
\* not applied: its save leaves the store as it is
StaleFormIsNotSaved ==
  [][ (event.type = "document-loaded" /\ ~modalHidden /\ SaveKeyValue)
      => keyValueMap' = keyValueMap ]_vars

-----------------------------------------------------------------------------
(* The category of a save: saveKeyValue takes the value of the select as   *)
(* it is.                                                                  *)

\* The values #category-select can hold: labels of the four categories and
\* one label that is none of them
CategoryOptions == { "personal", "legal", "other" }

CategoryNext ==
  \/ ShowAddCustomFieldModal
  \/ \E key \in Range(MapKeys(keyValueMap)) : EditKeyValue(key)
  \/ \E k \in KeyInputs : TypeKey(k)
  \/ \E c \in CategoryOptions : SelectCategory(c)
  \/ SaveKeyValue
  \/ ViewerHideModal
  \/ \E key \in Range(MapKeys(keyValueMap)) : \E ok \in BOOLEAN : RemoveKV(key, ok)

SpecCategory == ViewerInit /\ [][CategoryNext]_vars

\* C20: a save whose category is none of personal, medical, incident and
\* legal is rejected: the store is as before
UnrecognizedCategoryIsRejected ==
  [][ (SaveKeyValue /\ categorySelect \notin Range(Categories))
      => keyValueMap' = keyValueMap ]_vars

-----------------------------------------------------------------------------
(* The store of OCRProcessor (static/js/ocr.js): saves from the form, the   *)
(* remove buttons and removeKeyValue(key).                                 *)

\* The keys removeKeyValue is called with
DeleteKeys == { << "k" >>, << "a" >>, << "b" >> }

\* removeKeyValue(key): the delete, the lines whose text contains the key
\* are no longer processed, updateKVDisplay
RemoveKeyValue(key) ==
  /\ modalHidden
  /\ event' = KeyEvent("removeKeyValue", key)
  /\ alertMsg' = None
  /\ keyValueMap' = MapDelete(keyValueMap, key)
  /\ processedLines' =
       processedLines \ { e.index : e \in { l \in Range(ocrLines) :
                                           Includes(TextContent(l), key) } }
  /\ analysis' = [ analysis EXCEPT !.analyzeDisabled = (keyValueMap' = << >>) ]
  /\ UNCHANGED << ocrLines, renders, selectedLines, lastSelected, blue,
                  selectedText, modalHidden, modalText, keyInput, valueInput,
                  categorySelect, listeners, currentDocument, currentPage,
                  pendingDocument, pageBtnDisabled, activeCategory, fieldCategories, loading, fnIn, fnOut >>

StoreNext ==
  \/ \E p \in 1..Len(AnalysisPages) : DisplayResults(AnalysisPages[p])
  \/ \E e \in ClickEvents : \E line \in Range(ocrLines) : HandleLineClick(e, line)
  \/ MarkProcessed
  \/ ProcessSelection
  \/ HideModal
  \/ \E k \in KeyInputs : TypeKey(k)
  \/ OcrSaveKeyValue
  \/ \E key \in Range(MapKeys(keyValueMap)) : \E ok \in BOOLEAN :
       OcrRemoveKV(key, ok)
  \/ \E key \in DeleteKeys : RemoveKeyValue(key)

SpecStore == SelectInit /\ [][StoreNext]_vars

\* C21: a delete takes out the entry of its key and nothing else, the other
\* entries keep their order; for a key the Map does not have it changes
\* nothing and reports nothing, so that a second delete of the same key
\* leaves the store of the first
DeleteIsIdempotent ==
  [][ \A key \in DeleteKeys :
        (RemoveKeyValue(key) \/ OcrRemoveKV(key, TRUE)) =>
          /\ alertMsg' = None
          /\ keyValueMap' = Without(keyValueMap, KeyPos(keyValueMap, key))
          /\ ~MapHas(keyValueMap', key)
          /\ ~MapHas(keyValueMap, key) => keyValueMap' = keyValueMap ]_vars

\* removeKeyValue for a key that is not in a store of two fields
C21Witness ==
  /\ event.type = "removeKeyValue"
  /\ Len(keyValueMap) = 2
  /\ ~MapHas(keyValueMap, event.key)

-----------------------------------------------------------------------------
(* The grouped export of the document viewer: copyAllFields of preview.js  *)
(* and the field part of prepareAnalysisData.                              *)

MaxExportFields == 3   \* entries of a store that is exported

\* The headers of the four sections, in the order the code adds them
CopyHeaders ==
  << << "u3010", "u4E2A", "u4EBA", "u4FE1", "u606F", "u3011" >>,
     << "u3010", "u533B", "u7597", "u4FE1", "u606F", "u3011" >>,
     << "u3010", "u4E8B", "u6545", "u4FE1", "u606F", "u3011" >>,
     << "u3010", "u6CD5", "u5F8B", "u4FE1", "u606F", "u3011" >> >>
AnalysisHeaders ==
  << << "u4E2A", "u4EBA", "u4FE1", "u606F", ":" >>,
     << "u533B", "u7597", "u4FE1", "u606F", ":" >>,
     << "u4E8B", "u6545", "u4FE1", "u606F", ":" >>,
     << "u6CD5", "u5F8B", "u4FE1", "u606F", ":" >> >>
ExtractedFieldsHeader ==
  << NL, "u3010", "u63D0", "u53D6", "u5B57", "u6BB5", "u3011", NL >>

\* The arrays of const categories after the loop over the entries of the
\* Map: an entry is pushed as "key: value" onto the array of its category
\* (personal for a falsy one), and is left out when there is no such array
RECURSIVE GroupLoop(_, _)
GroupLoop(categories, entries) ==
  IF entries = << >> THEN categories
  ELSE LET en == Head(entries)
           category == IF en.data.category = "" THEN "personal"
                       ELSE en.data.category
           line == en.key \o << HalfColon, SP >> \o en.data.value
       IN GroupLoop(
            IF category \in DOMAIN categories
            THEN [ categories EXCEPT ![category] = Append(@, line) ]
            ELSE categories,
            Tail(entries))

NoGroups ==
  [ personal |-> << >>, medical |-> << >>, incident |-> << >>, legal |-> << >> ]

\* One if of the export: header, the lines joined by a line break, and two
\* line breaks, for an array that is not empty
SectionText(header, lines) ==
  IF Len(lines) > 0 THEN header \o << NL >> \o Join(lines, << NL >>) \o << NL, NL >>
  ELSE << >>

\* The four ifs with legal before incident
GroupedTextLegalFirst(map, headers) ==
  LET categories == GroupLoop(NoGroups, map)
  IN SectionText(headers[1], categories.personal)
       \o SectionText(headers[2], categories.medical)
       \o SectionText(headers[4], categories.legal)
       \o SectionText(headers[3], categories.incident)

\* The four ifs of copyAllFields and of prepareAnalysisData
GroupedText(map, headers) ==
  LET categories == GroupLoop(NoGroups, map)
  IN SectionText(headers[1], categories.personal)
       \o SectionText(headers[2], categories.medical)
       \o SectionText(headers[3], categories.incident)
       \o SectionText(headers[4], categories.legal)

\* The stores that are exported
ExportKeys == { << "a" >>, << "b" >>, << "c" >>, << "d" >> }
ExportStores ==
  { st \in SeqsUpTo([ key : ExportKeys,
                      data : [ value : { << "x" >> },
                               category : Range(Categories) ] ],
                    MaxExportFields) :
      \A i, j \in 1..Len(st) : i # j => st[i].key # st[j].key }

ExportInit ==
  /\ fnIn \in ExportStores
  /\ fnOut = << >>
  /\ ocrLines = << >>
  /\ renders = 0
  /\ selectedLines = << >>
  /\ processedLines = {}
  /\ lastSelected = NoLine
  /\ blue = {}
  /\ selectedText = << >>
  /\ keyValueMap = << >>
  /\ modalHidden = TRUE
  /\ modalText = << >>
  /\ keyInput = << >>
  /\ valueInput = << >>
  /\ categorySelect = None
  /\ alertMsg = None
  /\ event = Event("load", NoKeys, NoLine)
  /\ listeners = << >>
  /\ currentDocument = NoDocument
  /\ currentPage = 1
  /\ pendingDocument = NoDocument
  /\ pageBtnDisabled = NoButtonDisabled
  /\ analysis = NoAnalysis
  /\ activeCategory = "all"
  /\ fieldCategories = NoFieldCategories
  /\ loading = NoLoading

\* copyAllFields: the text written to the clipboard
CopyAllFields ==
  /\ fnOut = << >>
  /\ fnOut' = << [ headers |-> CopyHeaders,
                   text |-> GroupedText(fnIn, CopyHeaders) ] >>
  /\ UNCHANGED << fnIn, classVars >>

\* prepareAnalysisData with no document open: the text it returns
PrepareAnalysisData ==
  /\ fnOut = << >>
  /\ fnOut' = << [ headers |-> AnalysisHeaders,
                   text |-> IF Len(fnIn) > 0
                            THEN ExtractedFieldsHeader
                                   \o GroupedText(fnIn, AnalysisHeaders)
                            ELSE << >> ] >>
  /\ UNCHANGED << fnIn, classVars >>

ExportNext == CopyAllFields \/ PrepareAnalysisData

SpecExport == ExportInit /\ [][ExportNext]_vars

\* The "key: value" strings of the fields of a category, in the order of
\* the store
LinesOf(map, category) ==
  LET fields == SelectSeq(map, LAMBDA en : en.data.category = category)
  IN [ i \in 1..Len(fields) |->
         fields[i].key \o << HalfColon, SP >> \o fields[i].data.value ]

\* The sections of the categories from position i on that have a field
RECURSIVE SectionsFrom(_, _, _)
SectionsFrom(map, headers, i) ==
  IF i > Len(Categories) THEN << >>
  ELSE ( IF \E n \in 1..Len(map) : map[n].data.category = Categories[i]
         THEN headers[i] \o << NL >>
                \o Join(LinesOf(map, Categories[i]), << NL >>) \o << NL, NL >>
         ELSE << >> )
       \o SectionsFrom(map, headers, i + 1)

\* C23: the export is one section for each category that has a field, none
\* for a category without, in the order personal, medical, incident, legal,
\* and a section lists its "key: value" strings in the order of the store
ExportIsGroupedInFixedOrder ==
  fnOut # << >> =>
    LET sections == SectionsFrom(fnIn, fnOut[1].headers, 1)
    IN \/ fnOut[1].text = sections
       \/ /\ fnOut[1].headers = AnalysisHeaders
          /\ fnIn # << >>
          /\ fnOut[1].text = ExtractedFieldsHeader \o sections

\* The export of a store with a legal field before two personal fields
C23Witness ==
  /\ fnOut # << >>
  /\ Len(fnIn) = 3
  /\ fnIn[1].data.category = "legal"
  /\ fnIn[2].data.category = "personal"
  /\ fnIn[3].data.category = "personal"
  /\ fnOut[1].headers = CopyHeaders

-----------------------------------------------------------------------------
(* The three tokenizers: renderLines of ocr.js, displayOCRResults of the   *)
(* document viewer and renderOCRText of ocr-handler.js.                    *)

MaxRawLen == 4   \* characters of a raw text given to a tokenizer

RawChars == { "a", "b", NL, SP }

RawTexts == SeqsUpTo(RawChars, MaxRawLen) \ { << >> }

\* s without the line breaks it starts with
RECURSIVE SkipBreaks(_)
SkipBreaks(s) ==
  IF s # << >> /\ Head(s) = NL THEN SkipBreaks(Tail(s)) ELSE s

\* String.prototype.split(/\n+/): a run of line breaks is one separator
RECURSIVE SplitParagraphs(_)
SplitParagraphs(s) ==
  LET i == IndexOf(s, NL)
  IN IF i = -1 THEN << s >>
     ELSE << Substring(s, 0, i) >>
            \o SplitParagraphs(SkipBreaks(SubstringFrom(s, i)))

\* renderOCRText: the paragraphs that are not blank, each with the index
\* forEach gives it, which counts the paragraphs that are left after filter
RenderParagraphs(ocrText) ==
  IF Trim(ocrText) = << >> THEN << >>
  ELSE LET paragraphs ==
             SelectSeq(SplitParagraphs(ocrText), LAMBDA p : Trim(p) # << >>)
       IN [ n \in 1..Len(paragraphs) |-> LineElement(1, n - 1, paragraphs[n]) ]

TokenizeInit ==
  /\ fnIn \in RawTexts
  /\ fnOut = << >>
  /\ ocrLines = << >>
  /\ renders = 0
  /\ selectedLines = << >>
  /\ processedLines = {}
  /\ lastSelected = NoLine
  /\ blue = {}
  /\ selectedText = << >>
  /\ keyValueMap = << >>
  /\ modalHidden = TRUE
  /\ modalText = << >>
  /\ keyInput = << >>
  /\ valueInput = << >>
  /\ categorySelect = None
  /\ alertMsg = None
  /\ event = Event("load", NoKeys, NoLine)
  /\ listeners = << >>
  /\ currentDocument = NoDocument
  /\ currentPage = 1
  /\ pendingDocument = NoDocument
  /\ pageBtnDisabled = NoButtonDisabled
  /\ analysis = NoAnalysis
  /\ activeCategory = "all"
  /\ fieldCategories = NoFieldCategories
  /\ loading = NoLoading

\* OCRProcessor.displayResults and renderLines of ocr.js
TokenizeDisplayResults ==
  /\ fnOut = << >>
  /\ fnOut' = << [ fn |-> "displayResults", lines |-> RenderLines(SplitLines(fnIn), 1) ] >>
  /\ UNCHANGED << fnIn, classVars >>

\* DocumentViewer.prototype.displayOCRResults
DisplayOCRResults ==
  /\ fnOut = << >>
  /\ fnOut' = << [ fn |-> "displayOCRResults", lines |-> RenderLines(SplitLines(fnIn), 1) ] >>
  /\ UNCHANGED << fnIn, classVars >>

\* renderOCRText of ocr-handler.js
RenderOCRText ==
  /\ fnOut = << >>
  /\ fnOut' = << [ fn |-> "renderOCRText", lines |-> RenderParagraphs(fnIn) ] >>
  /\ UNCHANGED << fnIn, classVars >>

TokenizeNext == TokenizeDisplayResults \/ DisplayOCRResults \/ RenderOCRText

SpecTokenize == TokenizeInit /\ [][TokenizeNext]_vars

\* The positions, counted from 0, of the segments of raw between line
\* breaks that are not blank
RECURSIVE KeptPositions(_, _)
KeptPositions(segments, p) ==
  IF segments = << >> THEN << >>
  ELSE ( IF Trim(Head(segments)) # << >> THEN << p >> ELSE << >> )
       \o KeptPositions(Tail(segments), p + 1)

\* C24: the index of a line is the position of its segment in the split of
\* the raw text before the blank segments are dropped, so the lines carry
\* the positions of the segments that are not blank ("a\n\nb": 0 and 2)
IndexIsPositionInUnfilteredSplit ==
  fnOut # << >> =>
    [ n \in 1..Len(fnOut[1].lines) |-> fnOut[1].lines[n].index ]
      = KeptPositions(SplitLines(fnIn), 0)

-----------------------------------------------------------------------------
(* Pages without OCR text: renderDocument calls displayOCRResults only for *)
(* a page that has raw text.                                               *)

\* Documents with a page whose raw text is empty, after and before a page
\* with lines
DocumentsWithEmptyPage ==
  { [ processed_text |-> << >>,
      pages |-> << << "a", NL, "b", NL, "c" >>, << >> >> ],
    [ processed_text |-> << >>,
      pages |-> << << >>, << "d", NL, "e" >>, << >> >> ] }

MaxSelectedText == 2   \* texts in selectedText, which no change of page empties

EmptyPageNext ==
  \/ \E doc \in DocumentsWithEmptyPage : OpenDocument(doc)
  \/ \E delta \in {-1, 1} : ChangePage(delta)
  \/ \E line \in Range(ocrLines) :
       Len(selectedText) < MaxSelectedText /\ ViewerHandleLineClick(line)
  \/ ClearSelection

SpecEmptyPage == ViewerInit /\ [][EmptyPageNext]_vars

\* C25: while a page whose raw text is empty is shown there is no line to
\* select: none of the page shown before is left
EmptyPageHasNoLines ==
  ( currentDocument # NoDocument /\ currentDocument.pages[currentPage] = << >> )
    => ocrLines = << >>

-----------------------------------------------------------------------------
(* The selection and the key/value form of the document viewer *)

\* The selection of lines and every step of the form a commit opens
FormNext ==
  \/ \E doc \in Documents : ViewDocument(doc)
  \/ \E line \in Range(ocrLines) : ViewerHandleLineClick(line)
  \/ ClearSelection
  \/ ViewerProcessSelection
  \/ \E k \in KeyInputs : TypeKey(k)
  \/ SaveKeyValue
  \/ ViewerHideModal

SpecForm == ViewerInit /\ [][FormNext]_vars

-----------------------------------------------------------------------------
(* Selection Controller: the three click handlers of OCRProcessor *)

\* The clicks on the lines of the pane, its renderings and the apply step
ClicksNext ==
  \/ \E p \in 1..Len(RawPages) : DisplayResults(RawPages[p])
  \/ \E e \in ClickEvents : \E line \in Range(ocrLines) : HandleLineClick(e, line)
  \/ MarkProcessed

SpecClicks == SelectInit /\ [][ClicksNext]_vars

\* C27: a click without modifier keys on a line that is not committed
\* leaves that line alone selected and highlighted and makes it the anchor;
\* on a committed line it changes neither the selection nor the anchor
PlainClickSelectsOnlyLine ==
  [][ \A line \in Range(ocrLines) :
        HandleLineClick(NoKeys, line) =>
          IF line.index \notin processedLines
          THEN /\ selectedLines' = << line >>
               /\ lastSelected' = line
               /\ line \in blue'
               /\ \A l \in blue' : l = line \/ l.index \in processedLines
          ELSE UNCHANGED << selectedLines, lastSelected, blue >> ]_vars

\* A plain click has selected a line while another line is committed
C27Witness ==
  /\ event.type = "click"
  /\ ~event.shiftKey
  /\ ~event.ctrlKey
  /\ event.line.index \notin processedLines
  /\ selectedLines = << event.line >>
  /\ processedLines # {}

\* C28: a ctrl-click on a line that is not committed flips the membership
\* of that line in selected and of no other, and makes it the anchor (so a
\* second ctrl-click on it gives the selected set back); on a committed
\* line it changes nothing
ModifierClickTogglesLine ==
  [][ \A e \in ClickEvents : \A line \in Range(ocrLines) :
        ( /\ HandleLineClick(e, line)
          /\ e.ctrlKey
          /\ ~(e.shiftKey /\ lastSelected # NoLine) ) =>
          IF line.index \notin processedLines
          THEN /\ Range(selectedLines') =
                    IF line \in Range(selectedLines)
                    THEN Range(selectedLines) \ {line}
                    ELSE Range(selectedLines) \cup {line}
               /\ lastSelected' = line
          ELSE UNCHANGED << selectedLines, lastSelected, blue >> ]_vars

\* A ctrl-click has taken a line out of a selection and left another in it
C28Witness ==
  /\ event.type = "click"
  /\ event.ctrlKey
  /\ ~event.shiftKey
  /\ event.line.index \notin processedLines
  /\ event.line \notin Range(selectedLines)
  /\ lastSelected = event.line
  /\ selectedLines # << >>

-----------------------------------------------------------------------------
(* The keys of the store of the document viewer, on every path that puts a *)
(* field into it.                                                          *)

\* The documents of Documents and one whose persisted processed_text has a
\* key of one space
PersistedDocuments ==
  Documents \cup
    { [ processed_text |-> << [ key |-> << SP >>, value |-> << "x" >> ] >>,
        pages |-> << << "a", HalfColon, "x" >> >> ] }

\* The data-field of the placeholders clicked: one with aliases, one without
PlaceholderFields == { << "n", "a", "m", "e" >>, << "o", "t", "h", "e", "r" >> }

\* The click on a placeholder of the report, answered with newValue, and
\* its updateFieldInKeyValueMap
EditPlaceholder(fieldName, newValue) ==
  /\ modalHidden
  /\ Trim(newValue) # << >>
  /\ event' = KeyEvent("placeholder-click", fieldName)
  /\ alertMsg' = None
  /\ keyValueMap' = UpdateField(fieldName, newValue, keyValueMap)
  /\ fieldCategories' = UpdateKVDisplay(keyValueMap', activeCategory, fieldCategories)
  /\ UNCHANGED << ocrLines, renders, selectedLines, processedLines,
                  lastSelected, blue, selectedText, modalHidden, modalText,
                  keyInput, valueInput, categorySelect, listeners,
                  currentDocument, currentPage, pendingDocument,
                  pageBtnDisabled, analysis, activeCategory, loading, fnIn, fnOut >>

KeysNext ==
  \/ \E doc \in PersistedDocuments : ViewDocument(doc)
  \/ ShowAddCustomFieldModal
  \/ \E key \in Range(MapKeys(keyValueMap)) : EditKeyValue(key)
  \/ \E k \in KeyInputs : TypeKey(k)
  \/ SaveKeyValue
  \/ ViewerHideModal
  \/ \E f \in PlaceholderFields : EditPlaceholder(f, << "v" >>)

SpecKeys == ViewerInit /\ [][KeysNext]_vars

\* C30: in every reachable state every key of the store is non-empty after
\* trimming and is the key of one entry only
KeysAreNonEmptyAndUnique ==
  \A i \in 1..Len(keyValueMap) :
    /\ Trim(keyValueMap[i].key) # << >>
    /\ \A j \in 1..Len(keyValueMap) : i # j => keyValueMap[i].key # keyValueMap[j].key

-----------------------------------------------------------------------------
(* The entries of the store by category: updateKVDisplay obtains them and  *)
(* updateFieldCategories keeps, for each category panel, the ones of that  *)
(* category in this.fieldCategories.                                       *)

\* The data-category of the tabs clicked
CategoryTabs == { "all", "personal", "medical" }

\* switchFieldCategory(category): the click on a field category tab
SwitchFieldCategory(category) ==
  /\ modalHidden
  /\ category # activeCategory
  /\ event' = Event("switch-category", NoKeys, NoLine)
  /\ alertMsg' = None
  /\ activeCategory' = category
  /\ fieldCategories' = UpdateKVDisplay(keyValueMap, category, fieldCategories)
  /\ UNCHANGED << ocrLines, renders, selectedLines, processedLines,
                  lastSelected, blue, selectedText, keyValueMap, modalHidden,
                  modalText, keyInput, valueInput, categorySelect, listeners,
                  currentDocument, currentPage, pendingDocument,
                  pageBtnDisabled, analysis, loading, fnIn, fnOut >>

EntriesNext ==
  \/ \E doc \in Documents : ViewDocument(doc)
  \/ \E category \in CategoryTabs : SwitchFieldCategory(category)
  \/ ShowAddCustomFieldModal
  \/ \E k \in KeyInputs : TypeKey(k)
  \/ \E c \in CategoryInputs : SelectCategory(c)
  \/ SaveKeyValue
  \/ \E key \in Range(MapKeys(keyValueMap)) : \E ok \in BOOLEAN : RemoveKV(key, ok)
  \/ \E key \in DropKeys : \E c \in CategoryInputs : DropField(key, c)

SpecEntries == ViewerInit /\ [][EntriesNext]_vars

\* Key and value of the entries of the store whose category is category, in
\* the order of the store
EntriesOf(map, category) ==
  LET matching == SelectSeq(map, LAMBDA en : en.data.category = category)
  IN [ i \in 1..Len(matching) |->
         [ key |-> matching[i].key, value |-> matching[i].data.value ] ]

-----------------------------------------------------------------------------
(* Overlapping loads: viewDocument called again before the getDocument of  *)
(* an earlier call has answered.                                           *)

MaxLoads == 3   \* calls of viewDocument in one run

\* viewDocument up to its await, whether or not an earlier call is waiting
CallViewDocument(doc) ==
  /\ modalHidden
  /\ Len(loading.sent) < MaxLoads
  /\ event' = Event("viewDocument", NoKeys, NoLine)
  /\ alertMsg' = None
  /\ loading' = [ sent |-> Append(loading.sent, doc),
                  open |-> loading.open \cup { Len(loading.sent) + 1 } ]
  /\ UNCHANGED << ocrLines, blue, selectedText, keyValueMap, currentDocument,
                  currentPage, pageBtnDisabled, fieldCategories,
                  pendingDocument, renders, selectedLines, processedLines,
                  lastSelected, modalHidden, modalText, keyInput, valueInput,
                  categorySelect, listeners, analysis, activeCategory, fnIn,
                  fnOut >>

\* viewDocument after its await, for the call at position i: its getDocument
\* has answered, before or after those of the other calls
GetDocumentResolves(i) ==
  /\ i \in loading.open
  /\ LET document == loading.sent[i]
     IN /\ event' = Event("document-loaded", NoKeys, NoLine)
        /\ alertMsg' = None
        /\ currentDocument' = document
        /\ currentPage' = 1
        /\ keyValueMap' = FreshStore(document)
        /\ selectedText' = << >>
        /\ ocrLines' = RenderPageLines(document, 1, ocrLines)
        /\ blue' = RenderPageMarks(document, 1, blue)
        /\ pageBtnDisabled' = PageButtons(document, 1)
        /\ fieldCategories' =
             UpdateKVDisplay(keyValueMap', activeCategory, NoFieldCategories)
  /\ loading' = [ loading EXCEPT !.open = @ \ {i} ]
  /\ UNCHANGED << pendingDocument, renders, selectedLines, processedLines,
                  lastSelected, modalHidden, modalText, keyInput, valueInput,
                  categorySelect, listeners, analysis, activeCategory, fnIn,
                  fnOut >>

OverlapNext ==
  \/ \E doc \in Documents : CallViewDocument(doc)
  \/ \E i \in 1..MaxLoads : GetDocumentResolves(i)

SpecOverlap == ViewerInit /\ [][OverlapNext]_vars

\* C31: once every call of viewDocument has been answered, the document
\* shown and the store are those of the last call, in whatever order the
\* answers came
LastRequestWins ==
  ( loading.sent # << >> /\ loading.open = {} ) =>
    LET last == loading.sent[Len(loading.sent)]
    IN /\ currentDocument = last
       /\ keyValueMap = FreshStore(last)

-----------------------------------------------------------------------------
\* C32: while a request of the analyzer is in flight, this.controller is the
\* controller of that request: it is not null and no other request is in
\* flight
ControllerIsRequestInFlight ==
  \A r \in 1..Len(analysis.requests) :
    analysis.requests[r].phase \in {"fetching", "streaming"}
      => analysis.controller = r

-----------------------------------------------------------------------------
(* The stream of a response cut into chunks at different places.           *)

MaxStreamLen == 4   \* characters of a response body

StreamChars == { DataPrefix, "{", "A", "}", NL }

\* A response body and the place where the network cuts it in two chunks
\* (0 and Len(text): one chunk and an empty one)
ChunkedStreams ==
  { [ text |-> t, cut |-> c ] :
      t \in SeqsUpTo(StreamChars, MaxStreamLen) \ { << >> },
      c \in 0..MaxStreamLen }

ChunksOf(stream) ==
  LET c == IF stream.cut > Len(stream.text) THEN Len(stream.text)
           ELSE stream.cut
  IN << SubSeq(stream.text, 1, c),
        SubSeq(stream.text, c + 1, Len(stream.text)) >>

\* The while loop of handleStreamResponse over the chunks reader.read()
\* returns: accumulatedText when the stream is done
RECURSIVE HandleStreamResponse(_, _)
HandleStreamResponse(acc, chunks) ==
  IF chunks = << >> THEN acc
  ELSE HandleStreamResponse(AccumulateLines(acc, SplitLines(Head(chunks))),
                            Tail(chunks))

ChunkingInit ==
  /\ fnIn \in ChunkedStreams
  /\ fnOut = << >>
  /\ ocrLines = << >>
  /\ renders = 0
  /\ selectedLines = << >>
  /\ processedLines = {}
  /\ lastSelected = NoLine
  /\ blue = {}
  /\ selectedText = << >>
  /\ keyValueMap = << >>
  /\ modalHidden = TRUE
  /\ modalText = << >>
  /\ keyInput = << >>
  /\ valueInput = << >>
  /\ categorySelect = None
  /\ alertMsg = None
  /\ event = Event("load", NoKeys, NoLine)
  /\ listeners = << >>
  /\ currentDocument = NoDocument
  /\ currentPage = 1
  /\ pendingDocument = NoDocument
  /\ pageBtnDisabled = NoButtonDisabled
  /\ analysis = NoAnalysis
  /\ activeCategory = "all"
  /\ fieldCategories = NoFieldCategories
  /\ loading = NoLoading

\* handleStreamResponse reads the response to its end
ReadStream ==
  /\ fnOut = << >>
  /\ fnOut' = << HandleStreamResponse(<< >>, ChunksOf(fnIn)) >>
  /\ UNCHANGED << fnIn, classVars >>

ChunkingNext == ReadStream

SpecChunking == ChunkingInit /\ [][ChunkingNext]_vars

\* C33: the text accumulated from a response is that of the response read
\* in one chunk, wherever the network cuts it: every well-formed data line
\* contributes its content once
AccumulatedTextIgnoresChunking ==
  fnOut # << >> =>
    fnOut[1] = HandleStreamResponse(<< >>, << fnIn.text >>)

-----------------------------------------------------------------------------
(* The selection across page changes of OCRProcessor: displayResults is     *)
(* called again with the text of another page.                             *)

MaxPageChanges == 2   \* calls of displayResults in one run

PageChangeNext ==
  \/ \E p \in 1..Len(RawPages) : DisplayResultsWithin(RawPages[p], MaxPageChanges)
  \/ \E e \in ClickEvents : \E line \in Range(ocrLines) : HandleLineClick(e, line)

SpecPageChange == SelectInit /\ [][PageChangeNext]_vars

\* C34: a page change resets the selection: after displayResults has
\* rendered a page, selected is empty and the anchor is null
SelectionIsResetWithPage ==
  [][ renders' # renders =>
        ( selectedLines' = << >> /\ lastSelected' = NoLine ) ]_vars

-----------------------------------------------------------------------------
(* The manual edit of a placeholder followed by the projection of the      *)
(* store onto the same placeholder.                                        *)

\* updateFieldInKeyValueMap(fieldName, newValue), then updateReportFields
\* for the placeholder fieldName on the Map it leaves
EditThenResolve ==
  /\ fnOut = << >>
  /\ fnOut' = << ResolveField(fnIn.fieldName,
                              UpdateField(fnIn.fieldName, fnIn.newValue,
                                          fnIn.map)) >>
  /\ UNCHANGED << fnIn, classVars >>

RoundTripNext == EditThenResolve

SpecRoundTrip == BindInit /\ [][RoundTripNext]_vars

\* C35: after the manual edit of a placeholder with the value v, resolve of
\* the same placeholder on the store returns v
ResolveReturnsEditedValue ==
  fnOut # << >> => fnOut[1] = fnIn.newValue

-----------------------------------------------------------------------------
\* C36: a rename whose new key is empty after trimming changes nothing: the
\* entry of the old key is not deleted and no entry is added
EmptyRenameChangesNothing ==
  [][ ( CaseHandleSave /\ Trim(keyInput) = << >> )
        => keyValueMap' = keyValueMap ]_vars

\* The form of a field has been saved with a blank key: the field is still
\* in the store
C36Witness ==
  /\ event.type = "modal-save"
  /\ event.key = << >>
  /\ keyValueMap # << >>

-----------------------------------------------------------------------------
\* C37: every field of the store is in exactly one section of the grouped
\* export and of the category panel, the one of its stored category: no
\* field is left out
ExportIsComplete ==
  LET groups == GroupLoop(NoGroups, keyValueMap)
  IN \A i \in 1..Len(keyValueMap) :
       LET en == keyValueMap[i]
           line == en.key \o << HalfColon, SP >> \o en.data.value
           field == [ key |-> en.key, value |-> en.data.value ]
       IN /\ en.data.category \in DOMAIN groups
          /\ \A c \in DOMAIN groups :
               ( \E n \in 1..Len(groups[c]) : groups[c][n] = line )
                 <=> c = en.data.category
          /\ \A c \in DOMAIN fieldCategories :
               ( \E n \in 1..Len(fieldCategories[c]) :
                   fieldCategories[c][n] = field )
                 <=> c = en.data.category

-----------------------------------------------------------------------------
\* C38: when a key of the store equals, contains or is contained in an
\* alias of the placeholder, the manual edit changes only the value of the
\* first such entry in the order of the store: its key, category and
\* position, the other entries and their number are as before
EditOfMatchingFieldChangesValueOnly ==
  LET map == fnIn.map
      aliases == MatchTerms(fnIn.fieldName)
      matching(i) == \E p \in 1..Len(aliases) :
                       \/ map[i].key = aliases[p]
                       \/ Includes(map[i].key, aliases[p])
                       \/ Includes(aliases[p], map[i].key)
  IN ( fnOut # << >> /\ \E i \in 1..Len(map) : matching(i) )
     => LET first == CHOOSE i \in 1..Len(map) :
                       matching(i) /\ \A j \in 1..(i - 1) : ~matching(j)
        IN fnOut[1] = [ map EXCEPT ![first].data.value = fnIn.newValue ]

\* The placeholder name has been edited on a store whose first entry matches
\* the second alias and whose second entry is the first alias
C38Witness ==
  /\ fnOut # << >>
  /\ fnIn.fieldName = << "n", "a", "m", "e" >>
  /\ Len(fnIn.map) = 2
  /\ fnIn.map[1].key = << "u540D", "u5B57" >>
  /\ fnIn.map[2].key = << "u59D3", "u540D" >>
  /\ fnOut[1][1].data.value = fnIn.newValue
  /\ fnOut[1][2] = fnIn.map[2]

-----------------------------------------------------------------------------
(* Progress of the AIAnalyzer: every pending fetch and every pending read  *)
(* of a response settles.                                                  *)

\* The pending promise of request r settles: the fetch resolves or rejects,
\* the stream of the response reports done or an error.  The chunks read
\* before that are steps of ReceiveChunk
Settle(r) ==
  \/ \E body \in ResponseBodies : ResponseArrives(r, body)
  \/ RequestFails(r)
  \/ StreamEnds(r)

ProgressNext ==
  \/ \E p \in 1..Len(AnalysisPages) : DisplayResults(AnalysisPages[p])
  \/ \E line \in Range(ocrLines) : HandleLineClick(NoKeys, line)
  \/ ProcessSelection
  \/ OcrSaveKeyValue
  \/ StartAnalysis
  \/ \E r \in 1..Len(analysis.requests) : Settle(r)
  \/ \E r \in 1..Len(analysis.requests) : ReceiveChunk(r)
  \/ CancelAnalysis

SpecProgress ==
  /\ AnalysisInit
  /\ [][ProgressNext]_vars
  /\ \A r \in 1..(MaxAnalyses + 1) :
       WF_vars(r <= Len(analysis.requests) /\ Settle(r))

\* #analyze-btn enabled, #cancel-analyze-btn hidden, no controller held
Idle ==
  /\ ~analysis.analyzeDisabled
  /\ analysis.cancelHidden
  /\ analysis.controller = 0

\* An analysis has been started and its request has not settled
Pending ==
  \E r \in 1..Len(analysis.requests) :
    analysis.requests[r].phase \in {"fetching", "streaming"}

\* C39: every started analysis leads to the analyzer being idle again,
\* whether its request completes, fails or is cancelled
StartedAnalysisLeadsToIdle == Pending ~> Idle

\* A request has failed and the analyzer is idle
C39Witness ==
  /\ Idle
  /\ \E r \in 1..Len(analysis.requests) : analysis.requests[r].phase = "failed"

====
